---- MODULE Spec2Model ----
\* DeskPilot: the transactional file-mutation engine (safe filesystem
\* operations, organizer, deduper, transaction ledger, rollback engine).
\*
\* Encoding of paths.  A path is a record [dir, name]: dir is the sequence of
\* directory components, name is the file name split into the parts the code
\* manipulates textually:
\*     <pre_1>_..._<pre_n>_<base>_<suf_1>_..._<suf_m><ext>
\* pre holds the timestamps that safeDelete prefixes, suf the counters that
\* getUniqueFilename appends before the extension.  "a_1.txt" is therefore
\* [pre |-> <<>>, base |-> "a", suf |-> <<1>>, ext |-> ".txt"], whether it was
\* created by a collision rename or was there from the start.
EXTENDS Integers, Sequences, FiniteSets, TLC

\* files   : the regular files, path -> [content, birth, mtime]
\* dirs    : the directories that exist
\* ledger  : the stored transactions, ledger[i].transactionId = i
\* now     : the clock (Date.now(), new Date())
\* hist    : per stored transaction, the tree before and the files after the
\*           invocation that stored it, the environment's choices in it
\*           (the failing operating-system call, the stalled clock), its
\*           argument and the result it returned
\* last    : the most recent invocation: operation, argument, the error it
\*           threw ("" if none) and the result it returned
\* scans   : the stored scan summaries, scans[i].scanId = i
\* run     : the organize or dedupe under way when its execution loop is
\*           followed file by file (NoRun otherwise): its argument, its
\*           transaction id, its plan, the loop state and the position in it;
\*           or the two rollback invocations that overlap, each with the
\*           document it has read and the position it has reached
VARIABLES files, dirs, ledger, scans, now, hist, last, run

vars == <<files, dirs, ledger, scans, now, hist, last, run>>

\* ---------------------------------------------------------------- bounds
\* stored runs (scan, organize, dedupe) per behaviour
MaxRuns == 1
\* successful rollback invocations per behaviour
MaxRollbacks == 2
\* runs per behaviour in which an operating-system call fails
MaxFaults == 1
\* files in the initial tree
MaxFiles == 4
\* fsSafe.ts tries the suffixes _1 .. _999 (counter < 1000); the model keeps
\* the loop and scales the limit so that exhaustion is reachable.
CollisionLimit == 3

\* ------------------------------------------------------------ sequences
RECURSIVE SeqSum(_)
SeqSum(s) == IF s = <<>> THEN 0 ELSE Head(s) + SeqSum(Tail(s))

RECURSIVE SeqKey(_)
SeqKey(s) == IF s = <<>> THEN 0 ELSE (Head(s) + 1) + 10 * SeqKey(Tail(s))

Range(s) == {s[i] : i \in DOMAIN s}

\* the completed actions taken in their stored order
Reverse_Keep(s) == s

Reverse(s) == [i \in 1..Len(s) |-> s[Len(s) + 1 - i]]

IndexOf(s, x) == CHOOSE i \in DOMAIN s : s[i] = x

\* ------------------------------------------------------------ paths
TargetDir == <<"T">>
SubDir == <<"T", "sub">>
TrashDir == <<"trash">>

MkName(pre, base, suf, ext) == [pre |-> pre, base |-> base, suf |-> suf, ext |-> ext]

MkPath(dir, name) == [dir |-> dir, name |-> name]

NoName == MkName(<<>>, "", <<>>, "")

\* the empty string '' used as "no destination"
NoPath == MkPath(<<>>, NoName)

dirname(p) == p.dir

basename(p) == p.name

dirBasename(d) == IF d = <<>> THEN "" ELSE d[Len(d)]

join(dir, component) == Append(dir, component)

Ancestors(d) == {SubSeq(d, 1, k) : k \in 1..Len(d)}

\* ------------------------------------------------------------ categorize.ts
getAllCategories == <<"Documents", "Images", "Videos", "Audio", "Installers", "Archives", "Code", "Others">>

\* a conversion that leaves the extension as it is spelled
toLowerCase_Identity(ext) == ext

\* String.prototype.toLowerCase on the extensions with an upper-case letter
\* that the model uses; every other extension is in lower case already
LowerCased == [e \in {".TXT", ".Txt", ".JPG", ".Jpg", ".PDF", ".ZIP", ".XYZ"} |->
    CASE e \in {".TXT", ".Txt"} -> ".txt"
      [] e \in {".JPG", ".Jpg"} -> ".jpg"
      [] e = ".PDF" -> ".pdf"
      [] e = ".ZIP" -> ".zip"
      [] e = ".XYZ" -> ".xyz"]

toLowerCase(ext) == IF ext \in DOMAIN LowerCased THEN LowerCased[ext] ELSE ext

EXTENSION_CATEGORIES == [e \in {".txt", ".pdf", ".jpg", ".zip"} |->
    IF e \in {".txt", ".pdf"} THEN "Documents" ELSE IF e = ".jpg" THEN "Images" ELSE "Archives"]

categorizeFile(p) ==
    LET ext == toLowerCase(p.name.ext)
    IN IF ext \in DOMAIN EXTENSION_CATEGORIES THEN EXTENSION_CATEGORIES[ext] ELSE "Others"

\* ------------------------------------------------------------ hash.ts
\* a digest of the length alone
calculateFileHash_SizeOnly(bytes) == Len(bytes)

\* SHA-256 over the byte stream, taken as collision free: every byte is folded
\* into the digest, so distinct byte sequences get distinct digests.
RECURSIVE calculateFileHash(_)
calculateFileHash(bytes) ==
    IF bytes = <<>> THEN 0 ELSE (Head(bytes) + 1) + 3 * calculateFileHash(Tail(bytes))

\* ------------------------------------------------------------ fsSafe.ts
fileExists(fs, p) == p \in DOMAIN fs

ensureDirectory(ds, d) == ds \cup Ancestors(d)

getFileInfo(fs, p) ==
    [path |-> p, name |-> basename(p), size |-> Len(fs[p].content),
     createdAt |-> fs[p].birth, modifiedAt |-> fs[p].mtime]

WithSuffix(p, counter) == MkPath(p.dir, [p.name EXCEPT !.suf = Append(@, counter)])

RECURSIVE UniqueLoop(_, _, _)
UniqueLoop(fs, p, counter) ==
    LET newPath == WithSuffix(p, counter)
    IN IF fileExists(fs, newPath) /\ counter + 1 < CollisionLimit
       THEN UniqueLoop(fs, p, counter + 1)
       ELSE newPath

getUniqueFilename(fs, targetPath) ==
    IF ~fileExists(fs, targetPath) THEN targetPath ELSE UniqueLoop(fs, targetPath, 1)

Remove(fs, p) == [q \in DOMAIN fs \ {p} |-> fs[q]]

Put(fs, p, f) == [q \in DOMAIN fs \cup {p} |-> IF q = p THEN f ELSE fs[q]]

\* Outcomes of the operating system calls inside one safeMove / unlink:
\*   "ok"     renameSync succeeds
\*   "xdev"   renameSync throws, copyFileSync and unlinkSync succeed
\*   "nocopy" renameSync and copyFileSync throw
\*   "nodel"  renameSync throws, copyFileSync succeeds, unlinkSync throws
OsOutcomes == {"ok", "xdev", "nocopy", "nodel"}

MoveResult(success, from, to, error, fs, ds) ==
    [success |-> success, from |-> from, to |-> to, error |-> error, files |-> fs, dirs |-> ds]

\* lines 136-154: renameSync, and on its failure copyFileSync then unlinkSync
MoveTo(fs, ds2, from, to, finalTo, os, copied) ==
    CASE os = "ok" -> MoveResult(TRUE, from, finalTo, "", Put(Remove(fs, from), finalTo, fs[from]), ds2)
      [] os = "xdev" -> MoveResult(TRUE, from, finalTo, "", Put(Remove(fs, from), finalTo, copied), ds2)
      [] os = "nocopy" -> MoveResult(FALSE, from, to, "Permission denied", fs, ds2)
      [] os = "nodel" -> MoveResult(FALSE, from, to, "Permission denied", Put(fs, finalTo, copied), ds2)

\* a safeMove that creates the target directory before it looks for the source
safeMove_EnsuresFirst(fs, ds, from, to, handleCollision, os, clock) ==
    IF ~fileExists(fs, from)
    THEN MoveResult(FALSE, from, to, "Source file does not exist", fs, ensureDirectory(ds, dirname(to)))
    ELSE MoveTo(fs, ensureDirectory(ds, dirname(to)), from, to,
                IF handleCollision /\ fileExists(fs, to) THEN getUniqueFilename(fs, to) ELSE to,
                os, [fs[from] EXCEPT !.birth = clock, !.mtime = clock])

safeMove(fs, ds, from, to, handleCollision, os, clock) ==
    IF ~fileExists(fs, from)
    THEN MoveResult(FALSE, from, to, "Source file does not exist", fs, ds)
    ELSE MoveTo(fs, ensureDirectory(ds, dirname(to)), from, to,
                IF handleCollision /\ fileExists(fs, to) THEN getUniqueFilename(fs, to) ELSE to,
                os, [fs[from] EXCEPT !.birth = clock, !.mtime = clock])

DeleteResult(success, p, movedToTrash, trashPath, error, fs, ds) ==
    [success |-> success, path |-> p, movedToTrash |-> movedToTrash, trashPath |-> trashPath,
     error |-> error, files |-> fs, dirs |-> ds]

TrashName(timestamp, fileName) == [fileName EXCEPT !.pre = <<timestamp>> \o @]

\* lines 176-181: what safeDelete returns for the result of its safeMove to the trash
TrashResult(filePath, moveResult) ==
    IF moveResult.success
    THEN DeleteResult(TRUE, filePath, TRUE, moveResult.to, "", moveResult.files, moveResult.dirs)
    ELSE DeleteResult(FALSE, filePath, FALSE, NoPath, moveResult.error, moveResult.files, moveResult.dirs)

\* a safeDelete that moves to the trash without collision handling
safeDelete_NoCollisionHandling(fs, ds, filePath, moveToTrash, os, timestamp) ==
    IF ~fileExists(fs, filePath)
    THEN DeleteResult(FALSE, filePath, FALSE, NoPath, "File does not exist", fs, ds)
    ELSE IF moveToTrash
         THEN TrashResult(filePath,
                  safeMove(fs, ensureDirectory(ds, TrashDir), filePath,
                           MkPath(TrashDir, TrashName(timestamp, basename(filePath))), FALSE, os, timestamp))
         ELSE IF os = "ok"
              THEN DeleteResult(TRUE, filePath, FALSE, NoPath, "", Remove(fs, filePath), ds)
              ELSE DeleteResult(FALSE, filePath, FALSE, NoPath, "Permission denied", fs, ds)

safeDelete(fs, ds, filePath, moveToTrash, os, timestamp) ==
    IF ~fileExists(fs, filePath)
    THEN DeleteResult(FALSE, filePath, FALSE, NoPath, "File does not exist", fs, ds)
    ELSE IF moveToTrash
         THEN TrashResult(filePath,
                  safeMove(fs, ensureDirectory(ds, TrashDir), filePath,
                           MkPath(TrashDir, TrashName(timestamp, basename(filePath))), TRUE, os, timestamp))
         ELSE IF os = "ok"
              THEN DeleteResult(TRUE, filePath, FALSE, NoPath, "", Remove(fs, filePath), ds)
              ELSE DeleteResult(FALSE, filePath, FALSE, NoPath, "Permission denied", fs, ds)

\* readdirSync order: taken as a fixed order of the entry names, the files of a
\* directory before its subdirectories.
BaseRank(b) == CASE b = "a" -> 1 [] b = "b" -> 2 [] b = "p" -> 3 [] OTHER -> 4

ExtRank(e) == CASE e = "" -> 0 [] e = ".jpg" -> 1 [] e = ".txt" -> 2 [] OTHER -> 3

NameKey(n) == ((BaseRank(n.base) * 100 + SeqKey(n.suf)) * 10 + ExtRank(n.ext)) * 1000 + SeqKey(n.pre)

DirNames == <<"Archives", "Audio", "Code", "Documents", "Images", "Installers", "Others", "Videos", "sub">>

DirKey(d) == IF dirBasename(d) \in Range(DirNames) THEN IndexOf(DirNames, dirBasename(d)) ELSE 0

RECURSIVE SortNames(_)
SortNames(S) ==
    IF S = {} THEN <<>>
    ELSE LET m == CHOOSE x \in S : \A y \in S : NameKey(x) <= NameKey(y)
         IN <<m>> \o SortNames(S \ {m})

RECURSIVE SortDirs(_)
SortDirs(S) ==
    IF S = {} THEN <<>>
    ELSE LET m == CHOOSE x \in S : \A y \in S : DirKey(x) <= DirKey(y)
         IN <<m>> \o SortDirs(S \ {m})

SkippedDir(name) == name \in {".git", "node_modules", ".deskpilot-trash"}

RECURSIVE getAllFiles(_, _, _, _)
RECURSIVE WalkDirs(_, _, _, _)
getAllFiles(fs, ds, dirPath, recursive) ==
    LET here == SortNames({p.name : p \in {q \in DOMAIN fs : q.dir = dirPath}})
        fileEntries == [i \in 1..Len(here) |-> MkPath(dirPath, here[i])]
        subdirs == SortDirs({d \in ds : Len(d) = Len(dirPath) + 1 /\ SubSeq(d, 1, Len(dirPath)) = dirPath
                                        /\ ~SkippedDir(dirBasename(d))})
    IN IF dirPath \notin ds THEN <<>>
       ELSE IF recursive THEN fileEntries \o WalkDirs(fs, ds, subdirs, recursive) ELSE fileEntries

WalkDirs(fs, ds, subdirs, recursive) ==
    IF subdirs = <<>> THEN <<>>
    ELSE getAllFiles(fs, ds, Head(subdirs), recursive) \o WalkDirs(fs, ds, Tail(subdirs), recursive)

\* a check that takes every path for a directory
directoryExists_Always(ds, dirPath) == TRUE

directoryExists(ds, dirPath) == dirPath \in ds

\* ------------------------------------------------------------ ledger
Action(type, from, to, status, error, fileHash, fileSize) ==
    [type |-> type, from |-> from, to |-> to, status |-> status, error |-> error,
     fileHash |-> fileHash, fileSize |-> fileSize]

Summary(moved, deleted, restored, failed, saved, total) ==
    [movedCount |-> moved, deletedCount |-> deleted, restoredCount |-> restored,
     failedCount |-> failed, savedBytes |-> saved, totalProcessed |-> total]

\* new Transaction({...}); absent optional fields are "" (strategy) and 0
\* (completedAt, rolledBackAt, rollbackTransactionId)
Transaction(id, type, status, actions, summary, targetPath, dryRun, strategy, completedAt) ==
    [transactionId |-> id, type |-> type, status |-> status, actions |-> actions,
     summary |-> summary, targetPath |-> targetPath, dryRun |-> dryRun, strategy |-> strategy,
     completedAt |-> completedAt, rolledBackAt |-> 0, rollbackTransactionId |-> 0]

\* crypto.randomUUID(): an identifier no stored transaction has
generateId == Len(ledger) + 1

NoFault == [at |-> 0, os |-> "ok"]

OsAt(fault, i) == IF fault.at = i THEN fault.os ELSE "ok"

CompletedIn(actions) == {i \in DOMAIN actions : actions[i].status = "completed"}

CountStatus(actions, status) == Cardinality({i \in DOMAIN actions : actions[i].status = status})

\* ------------------------------------------------------------ organizer.ts
getOrganizableFiles(fs, ds, dirPath, recursive) ==
    SelectSeq(SelectSeq(getAllFiles(fs, ds, dirPath, recursive),
                        LAMBDA f : dirBasename(dirname(f)) \notin Range(getAllCategories)),
              LAMBDA f : recursive \/ dirname(f) = dirPath)

OrganizeTarget(dirPath, filePath) == MkPath(join(dirPath, categorizeFile(filePath)), basename(filePath))

\* the plan loop, lines 76-107
PlanEntry(fs, dirPath, filePath) ==
    [from |-> filePath, to |-> OrganizeTarget(dirPath, filePath), category |-> categorizeFile(filePath),
     fileName |-> basename(filePath), size |-> getFileInfo(fs, filePath).size]

PlanEntries(fs, dirPath, kept) == [i \in 1..Len(kept) |-> PlanEntry(fs, dirPath, kept[i])]

\* a plan with a move for every file of the listing, wherever it is
OrganizePlan_PlansAll(fs, ds, dirPath, recursive) ==
    PlanEntries(fs, dirPath, getAllFiles(fs, ds, dirPath, recursive))

OrganizePlan(fs, ds, dirPath, recursive) ==
    PlanEntries(fs, dirPath, SelectSeq(getOrganizableFiles(fs, ds, dirPath, recursive),
                                       LAMBDA f : dirname(f) # join(dirPath, categorizeFile(f))))

PlannedMoves(plan) ==
    [i \in 1..Len(plan) |-> Action("move", plan[i].from, plan[i].to, "pending", "", 0, plan[i].size)]

EnsureCategories(ds, dirPath) ==
    ds \cup UNION {Ancestors(join(dirPath, getAllCategories[k])) : k \in DOMAIN getAllCategories}

\* an organizer that leaves the planned destination on the action
MoveDone_KeepsPlanned(action, result) ==
    IF result.success
    THEN [action EXCEPT !.status = "completed"]
    ELSE [action EXCEPT !.status = "failed", !.error = result.error]

\* lines 130-138: the outcome of safeMove recorded on the action
MoveDone(action, result) ==
    IF result.success
    THEN [action EXCEPT !.status = "completed", !.to = result.to]
    ELSE [action EXCEPT !.status = "failed", !.error = result.error]

\* the execution loop, lines 120-144: st = [files, dirs, actions, okCount, failedCount]
MoveStep(st, i, result) ==
    [files |-> result.files, dirs |-> result.dirs,
     actions |-> [st.actions EXCEPT ![i] = MoveDone(st.actions[i], result)],
     okCount |-> IF result.success THEN st.okCount + 1 ELSE st.okCount,
     failedCount |-> IF result.success THEN st.failedCount ELSE st.failedCount + 1]

RECURSIVE ExecMoves(_, _, _, _, _)
ExecMoves(plan, i, st, fault, clock) ==
    IF i > Len(plan) THEN st
    ELSE ExecMoves(plan, i + 1,
                   MoveStep(st, i, safeMove(st.files, st.dirs, plan[i].from, plan[i].to, TRUE, OsAt(fault, i), clock)),
                   fault, clock)

\* an organizer that stores every non-dry run as completed
OrganizeSave_AlwaysCompleted(transactionId, dirPath, dryRun, plan, end) ==
    [files |-> end.files, dirs |-> end.dirs,
     transaction |-> Transaction(transactionId, "organize",
                         IF dryRun THEN "pending" ELSE "completed",
                         end.actions, Summary(end.okCount, 0, 0, end.failedCount, 0, Len(plan)),
                         dirPath, dryRun, "", IF dryRun THEN 0 ELSE now),
     result |-> [transactionId |-> transactionId, targetPath |-> dirPath,
                 dryRun |-> dryRun, plan |-> plan,
                 summary |-> [totalFiles |-> Len(plan), movedCount |-> end.okCount,
                              failedCount |-> end.failedCount]]]

\* lines 147-186: the stored transaction and the returned OrganizeResult
OrganizeSave(transactionId, dirPath, dryRun, plan, end) ==
    [files |-> end.files, dirs |-> end.dirs,
     transaction |-> Transaction(transactionId, "organize",
                         IF dryRun THEN "pending"
                         ELSE IF end.failedCount = 0 THEN "completed" ELSE "partially_completed",
                         end.actions, Summary(end.okCount, 0, 0, end.failedCount, 0, Len(plan)),
                         dirPath, dryRun, "", IF dryRun THEN 0 ELSE now),
     result |-> [transactionId |-> transactionId, targetPath |-> dirPath,
                 dryRun |-> dryRun, plan |-> plan,
                 summary |-> [totalFiles |-> Len(plan), movedCount |-> end.okCount,
                              failedCount |-> end.failedCount]]]

\* an organizer that executes its plan on a dry run too
OrganizeExecute_IgnoresDryRun(dirPath, dryRun, plan, start, fault) ==
    IF Len(plan) > 0
    THEN ExecMoves(plan, 1, [start EXCEPT !.dirs = EnsureCategories(dirs, dirPath)], fault, now)
    ELSE start

\* lines 113-145: nothing is executed on a dry run or an empty plan
OrganizeExecute(dirPath, dryRun, plan, start, fault) ==
    IF ~dryRun /\ Len(plan) > 0
    THEN ExecMoves(plan, 1, [start EXCEPT !.dirs = EnsureCategories(dirs, dirPath)], fault, now)
    ELSE start

OrganizeWith(transactionId, dirPath, dryRun, plan, fault) ==
    OrganizeSave(transactionId, dirPath, dryRun, plan,
        OrganizeExecute(dirPath, dryRun, plan,
            [files |-> files, dirs |-> dirs, actions |-> PlannedMoves(plan), okCount |-> 0, failedCount |-> 0],
            fault))

organize(dirPath, dryRun, recursive, fault) ==
    OrganizeWith(generateId, dirPath, dryRun, OrganizePlan(files, dirs, dirPath, recursive), fault)

\* ------------------------------------------------------------ deduper.ts
Strategies == {"keep-latest", "keep-oldest", "keep-largest"}

\* the comparator of sortByStrategy is negative for (a, b)
ComesBefore(strategy, a, b) ==
    CASE strategy = "keep-latest" -> b.modifiedAt - a.modifiedAt < 0
      [] strategy = "keep-oldest" -> a.createdAt - b.createdAt < 0
      [] strategy = "keep-largest" -> b.size - a.size < 0
      [] OTHER -> FALSE

\* an unstable sort: x goes in front of the first element it does not follow
InsertSorted_TiesFirst(strategy, sorted, x) ==
    LET firstAfter == {j \in DOMAIN sorted : ~ComesBefore(strategy, sorted[j], x)}
        at == IF firstAfter = {} THEN Len(sorted) + 1
              ELSE CHOOSE j \in firstAfter : \A k \in firstAfter : j <= k
    IN SubSeq(sorted, 1, at - 1) \o <<x>> \o SubSeq(sorted, at, Len(sorted))

\* Array.prototype.sort is stable: x goes in front of the first element it
\* strictly precedes, behind everything else
InsertSorted(strategy, sorted, x) ==
    LET firstAfter == {j \in DOMAIN sorted : ComesBefore(strategy, x, sorted[j])}
        at == IF firstAfter = {} THEN Len(sorted) + 1
              ELSE CHOOSE j \in firstAfter : \A k \in firstAfter : j <= k
    IN SubSeq(sorted, 1, at - 1) \o <<x>> \o SubSeq(sorted, at, Len(sorted))

RECURSIVE SortFrom(_, _, _)
SortFrom(strategy, sorted, rest) ==
    IF rest = <<>> THEN sorted
    ELSE SortFrom(strategy, InsertSorted(strategy, sorted, Head(rest)), Tail(rest))

sortByStrategy(filesOfGroup, strategy) == SortFrom(strategy, <<>>, filesOfGroup)

\* lines 92-118: the entries of the listing with their digest
HashedFile(fs, filePath) ==
    [path |-> filePath, size |-> getFileInfo(fs, filePath).size,
     createdAt |-> getFileInfo(fs, filePath).createdAt,
     modifiedAt |-> getFileInfo(fs, filePath).modifiedAt,
     hash |-> calculateFileHash(fs[filePath].content)]

HashEach(fs, filePaths) == [i \in 1..Len(filePaths) |-> HashedFile(fs, filePaths[i])]

HashedFiles(fs, ds, dirPath) == HashEach(fs, getAllFiles(fs, ds, dirPath, TRUE))

\* the keys of hashMap in insertion order
RECURSIVE HashKeys(_, _)
HashKeys(hashed, seen) ==
    IF hashed = <<>> THEN <<>>
    ELSE IF Head(hashed).hash \in seen THEN HashKeys(Tail(hashed), seen)
         ELSE <<Head(hashed).hash>> \o HashKeys(Tail(hashed), seen \cup {Head(hashed).hash})

StripHash(f) == [path |-> f.path, size |-> f.size, createdAt |-> f.createdAt, modifiedAt |-> f.modifiedAt]

HashMapGet(hashed, h) ==
    LET members == SelectSeq(hashed, LAMBDA f : f.hash = h)
    IN [i \in 1..Len(members) |-> StripHash(members[i])]

\* a DuplicateInfo that marks every member tied with the first one as kept
DuplicateInfo_KeepsTied(hash, sorted) ==
    [hash |-> hash,
     files |-> [idx \in 1..Len(sorted) |->
                  [path |-> sorted[idx].path, size |-> sorted[idx].size, createdAt |-> sorted[idx].createdAt,
                   modifiedAt |-> sorted[idx].modifiedAt, isKept |-> (sorted[idx].size = sorted[1].size)]],
     wastedSize |-> SeqSum([i \in 1..Len(sorted) - 1 |-> sorted[i + 1].size])]

\* lines 126-145: one DuplicateInfo per key with more than one file
DuplicateInfo(hash, sorted) ==
    [hash |-> hash,
     files |-> [idx \in 1..Len(sorted) |->
                  [path |-> sorted[idx].path, size |-> sorted[idx].size, createdAt |-> sorted[idx].createdAt,
                   modifiedAt |-> sorted[idx].modifiedAt, isKept |-> (idx = 1)]],
     wastedSize |-> SeqSum([i \in 1..Len(sorted) - 1 |-> sorted[i + 1].size])]

DuplicateInfos(hashed, keys, strategy) ==
    [k \in 1..Len(keys) |-> DuplicateInfo(keys[k], sortByStrategy(HashMapGet(hashed, keys[k]), strategy))]

FindDuplicates(hashed, strategy) ==
    DuplicateInfos(hashed, SelectSeq(HashKeys(hashed, {}), LAMBDA h : ~(Len(HashMapGet(hashed, h)) <= 1)), strategy)

\* removal actions for sorted instead of sorted.slice(1)
RemovalActions_AllMembers(info, moveToTrash) ==
    [i \in 1..Len(info.files) |->
        Action("delete", info.files[i].path,
               IF moveToTrash THEN MkPath(TrashDir, basename(info.files[i].path)) ELSE NoPath,
               "pending", "", info.hash, info.files[i].size)]

\* lines 148-158: the delete actions of one group, then of all groups
RemovalActions(info, moveToTrash) ==
    [i \in 1..Len(info.files) - 1 |->
        Action("delete", info.files[i + 1].path,
               IF moveToTrash THEN MkPath(TrashDir, basename(info.files[i + 1].path)) ELSE NoPath,
               "pending", "", info.hash, info.files[i + 1].size)]

RECURSIVE PlannedDeletes(_, _)
PlannedDeletes(duplicates, moveToTrash) ==
    IF duplicates = <<>> THEN <<>>
    ELSE RemovalActions(Head(duplicates), moveToTrash) \o PlannedDeletes(Tail(duplicates), moveToTrash)

\* Date.now() at the i-th safeDelete of a run that starts at clock: the clock
\* either advances between any two deletes, or (stall) only after every second
\* one, so that two deletes can fall into the same millisecond.
TimestampAt(clock, i, stall) == IF stall THEN clock + ((i - 1) \div 2) ELSE clock + (i - 1)

\* lines 180-191: the outcome of safeDelete recorded on the action
DeleteDone(action, result) ==
    IF result.success
    THEN [action EXCEPT !.status = "completed", !.to = IF result.trashPath # NoPath THEN result.trashPath ELSE @]
    ELSE [action EXCEPT !.status = "failed", !.error = result.error]

\* the execution loop, lines 170-197: st = [files, dirs, actions, okCount, failedCount]
DeleteStep(st, i, result) ==
    [files |-> result.files, dirs |-> result.dirs,
     actions |-> [st.actions EXCEPT ![i] = DeleteDone(st.actions[i], result)],
     okCount |-> IF result.success THEN st.okCount + 1 ELSE st.okCount,
     failedCount |-> IF result.success THEN st.failedCount ELSE st.failedCount + 1]

RECURSIVE ExecDeletes(_, _, _, _, _, _)
ExecDeletes(i, st, moveToTrash, fault, clock, stall) ==
    IF i > Len(st.actions) THEN st
    ELSE ExecDeletes(i + 1,
                     DeleteStep(st, i, safeDelete(st.files, st.dirs, st.actions[i].from, moveToTrash, OsAt(fault, i),
                                                  TimestampAt(clock, i, stall))),
                     moveToTrash, fault, clock, stall)

\* the planned total taken for the saved bytes, whatever was deleted
RoundedShare_Planned(savedBytes, deletedCount, planned) == savedBytes

\* Math.round(savedBytes * (deletedCount / (actions.length || 1)))
RoundedShare(savedBytes, deletedCount, planned) ==
    LET n == IF planned = 0 THEN 1 ELSE planned
    IN (2 * savedBytes * deletedCount + n) \div (2 * n)

RECURSIVE SumWasted(_)
SumWasted(duplicates) == IF duplicates = <<>> THEN 0 ELSE Head(duplicates).wastedSize + SumWasted(Tail(duplicates))

\* lines 199-244: the stored transaction and the returned DedupeResult
DedupeSave(transactionId, dirPath, dryRun, strategy, duplicates, planned, savedBytes, end, actualSavedBytes) ==
    [files |-> end.files, dirs |-> end.dirs,
     transaction |-> Transaction(transactionId, "dedupe",
                         IF dryRun THEN "pending"
                         ELSE IF end.failedCount = 0 THEN "completed" ELSE "partially_completed",
                         end.actions, Summary(0, end.okCount, 0, end.failedCount, actualSavedBytes, Len(planned)),
                         dirPath, dryRun, strategy, IF dryRun THEN 0 ELSE now),
     result |-> [transactionId |-> transactionId, targetPath |-> dirPath,
                 dryRun |-> dryRun, strategy |-> strategy, duplicates |-> duplicates,
                 summary |-> [totalDuplicateGroups |-> Len(duplicates), totalDuplicateFiles |-> Len(planned),
                              deletedCount |-> end.okCount, failedCount |-> end.failedCount,
                              savedBytes |-> IF dryRun THEN savedBytes ELSE actualSavedBytes]]]

DedupeCount(transactionId, dirPath, dryRun, strategy, duplicates, planned, savedBytes, end) ==
    DedupeSave(transactionId, dirPath, dryRun, strategy, duplicates, planned, savedBytes, end,
               IF dryRun THEN 0 ELSE RoundedShare(savedBytes, end.okCount, Len(planned)))

\* lines 162-197: nothing is executed on a dry run or without duplicates
DedupeExecute(dryRun, moveToTrash, start, fault, stall) ==
    IF ~dryRun /\ Len(start.actions) > 0
    THEN ExecDeletes(1, [start EXCEPT !.dirs = IF moveToTrash THEN ensureDirectory(dirs, TrashDir) ELSE dirs],
                     moveToTrash, fault, now, stall)
    ELSE start

DedupePlanned(transactionId, dirPath, dryRun, strategy, moveToTrash, duplicates, planned, fault, stall) ==
    DedupeCount(transactionId, dirPath, dryRun, strategy, duplicates, planned, SumWasted(duplicates),
        DedupeExecute(dryRun, moveToTrash,
            [files |-> files, dirs |-> dirs, actions |-> planned, okCount |-> 0, failedCount |-> 0],
            fault, stall))

DedupeWith(transactionId, dirPath, dryRun, strategy, moveToTrash, duplicates, fault, stall) ==
    DedupePlanned(transactionId, dirPath, dryRun, strategy, moveToTrash, duplicates,
                  PlannedDeletes(duplicates, moveToTrash), fault, stall)

dedupe(dirPath, dryRun, strategy, moveToTrash, fault, stall) ==
    DedupeWith(generateId, dirPath, dryRun, strategy, moveToTrash,
               FindDuplicates(HashedFiles(files, dirs, dirPath), strategy), fault, stall)

\* ------------------------------------------------------------ rollback (scanner.ts 298-529)
Outcome(status, error, fs, ds) == [status |-> status, error |-> error, files |-> fs, dirs |-> ds]

\* lines 481-485 and 506-510: the status for the result of the restoring safeMove
Restored(result) ==
    IF result.success THEN Outcome("restored", "", result.files, result.dirs)
    ELSE Outcome("failed", result.error, result.files, result.dirs)

\* a rollbackMove that does not look at the original path
rollbackMove_NoOccupiedCheck(fs, ds, action, os, clock) ==
    IF ~fileExists(fs, action.to)
    THEN Outcome("skipped", "File no longer exists at moved location", fs, ds)
    ELSE Restored(safeMove(fs, ensureDirectory(ds, dirname(action.from)), action.to, action.from, FALSE, os, clock))

\* lines 461-486
rollbackMove(fs, ds, action, os, clock) ==
    IF ~fileExists(fs, action.to)
    THEN Outcome("skipped", "File no longer exists at moved location", fs, ds)
    ELSE IF fileExists(fs, action.from)
         THEN Outcome("skipped", "Original location is no longer available (file exists)", fs, ds)
         ELSE Restored(safeMove(fs, ensureDirectory(ds, dirname(action.from)), action.to, action.from, FALSE, os, clock))

\* a rollbackDelete that looks for the trash copy at the original path
rollbackDelete_ChecksFrom(fs, ds, action, os, clock) ==
    IF action.to # NoPath /\ fileExists(fs, action.from)
    THEN Restored(safeMove(fs, ensureDirectory(ds, dirname(action.from)), action.to, action.from, TRUE, os, clock))
    ELSE Outcome("skipped", "File was permanently deleted or trash file not found", fs, ds)

\* a rollbackDelete that counts a delete without a trash copy as restored
rollbackDelete_ReportsRestored(fs, ds, action, os, clock) ==
    IF action.to # NoPath /\ fileExists(fs, action.to)
    THEN Restored(safeMove(fs, ensureDirectory(ds, dirname(action.from)), action.to, action.from, TRUE, os, clock))
    ELSE Outcome("restored", "", fs, ds)

\* lines 491-511
rollbackDelete(fs, ds, action, os, clock) ==
    IF action.to # NoPath /\ fileExists(fs, action.to)
    THEN Restored(safeMove(fs, ensureDirectory(ds, dirname(action.from)), action.to, action.from, TRUE, os, clock))
    ELSE Outcome("skipped", "File was permanently deleted or trash file not found", fs, ds)

RollbackOne(fs, ds, action, os, clock) ==
    CASE action.type = "move" -> rollbackMove(fs, ds, action, os, clock)
      [] action.type = "delete" -> rollbackDelete(fs, ds, action, os, clock)
      [] OTHER -> Outcome("skipped", "Unknown action type", fs, ds)

RestoreStatus(status) == IF status = "restored" THEN "completed" ELSE IF status = "failed" THEN "failed" ELSE "completed"

\* a loop that does not count the skipped actions
RollbackStep_SkippedUncounted(st, action, source, r) ==
    [files |-> r.files, dirs |-> r.dirs,
     rollbackActions |-> Append(st.rollbackActions,
          Action("restore", source, action.from, RestoreStatus(r.status), r.error,
                 action.fileHash, action.fileSize)),
     details |-> Append(st.details, [from |-> source, to |-> action.from, status |-> r.status, error |-> r.error]),
     restoredCount |-> IF r.status = "restored" THEN st.restoredCount + 1 ELSE st.restoredCount,
     failedCount |-> IF r.status = "failed" THEN st.failedCount + 1 ELSE st.failedCount,
     skippedCount |-> st.skippedCount]

\* the loop, lines 343-412: st = [files, dirs, rollbackActions, details, restoredCount, failedCount, skippedCount]
\* lines 366-411: the rollback action, the detail and the counters of one action
RollbackStep(st, action, source, r) ==
    [files |-> r.files, dirs |-> r.dirs,
     rollbackActions |-> Append(st.rollbackActions,
          Action("restore", source, action.from, RestoreStatus(r.status), r.error,
                 action.fileHash, action.fileSize)),
     details |-> Append(st.details, [from |-> source, to |-> action.from, status |-> r.status, error |-> r.error]),
     restoredCount |-> IF r.status = "restored" THEN st.restoredCount + 1 ELSE st.restoredCount,
     failedCount |-> IF r.status = "failed" THEN st.failedCount + 1 ELSE st.failedCount,
     skippedCount |-> IF r.status = "skipped" THEN st.skippedCount + 1 ELSE st.skippedCount]

RECURSIVE ExecRollback(_, _, _, _, _)
ExecRollback(reversedActions, i, st, fault, clock) ==
    IF i > Len(reversedActions) THEN st
    ELSE ExecRollback(reversedActions, i + 1,
              RollbackStep(st, reversedActions[i],
                  IF reversedActions[i].to # NoPath THEN reversedActions[i].to ELSE reversedActions[i].from,
                  RollbackOne(st.files, st.dirs, reversedActions[i], OsAt(fault, i), clock)),
              fault, clock)

\* a rollback without the already-rolled-back check
RollbackError_NoRolledBackCheck(transactionId) ==
    IF transactionId \notin DOMAIN ledger THEN "Transaction not found"
    ELSE IF ledger[transactionId].dryRun THEN "Cannot rollback a dry-run transaction"
    ELSE ""

\* a rollback without the dry-run check
RollbackError_NoDryRunCheck(transactionId) ==
    IF transactionId \notin DOMAIN ledger THEN "Transaction not found"
    ELSE IF ledger[transactionId].status = "rolled_back" THEN "Transaction has already been rolled back"
    ELSE ""

\* a rollback that only checks that the transaction exists
RollbackError_NotFoundOnly(transactionId) ==
    IF transactionId \notin DOMAIN ledger THEN "Transaction not found" ELSE ""

\* the three checks of lines 312-322; "" when none throws
RollbackError(transactionId) ==
    IF transactionId \notin DOMAIN ledger THEN "Transaction not found"
    ELSE IF ledger[transactionId].status = "rolled_back" THEN "Transaction has already been rolled back"
    ELSE IF ledger[transactionId].dryRun THEN "Cannot rollback a dry-run transaction"
    ELSE ""

\* a rollback that leaves out the back-reference
MarkRolledBack_NoBackReference(originalTransaction, rollbackTransactionId, clock) ==
    [originalTransaction EXCEPT !.status = "rolled_back", !.rolledBackAt = clock]

\* lines 435-437: the update of the original transaction
MarkRolledBack(originalTransaction, rollbackTransactionId, clock) ==
    [originalTransaction EXCEPT !.status = "rolled_back", !.rolledBackAt = clock,
                                !.rollbackTransactionId = rollbackTransactionId]

\* lines 414-455: the stored rollback transaction, the marked original, the RollbackResult
RollbackSave(transactionId, rollbackTransactionId, originalTransaction, reversedActions, end) ==
    [files |-> end.files, dirs |-> end.dirs,
     transaction |-> Transaction(rollbackTransactionId, "rollback",
                         IF end.failedCount = 0 THEN "completed" ELSE "partially_completed",
                         end.rollbackActions,
                         Summary(0, 0, end.restoredCount, end.failedCount, 0, Len(reversedActions)),
                         originalTransaction.targetPath, FALSE, "", now),
     original |-> MarkRolledBack(originalTransaction, rollbackTransactionId, now),
     result |-> [transactionId |-> transactionId,
                 rollbackTransactionId |-> rollbackTransactionId, originalType |-> originalTransaction.type,
                 summary |-> [totalActions |-> Len(reversedActions), restoredCount |-> end.restoredCount,
                              failedCount |-> end.failedCount, skippedCount |-> end.skippedCount],
                 details |-> end.details]]

RollbackWith(transactionId, rollbackTransactionId, originalTransaction, reversedActions, fault) ==
    RollbackSave(transactionId, rollbackTransactionId, originalTransaction, reversedActions,
        ExecRollback(reversedActions, 1,
            [files |-> files, dirs |-> dirs, rollbackActions |-> <<>>, details |-> <<>>,
             restoredCount |-> 0, failedCount |-> 0, skippedCount |-> 0], fault, now))

rollback(transactionId, fault) ==
    RollbackWith(transactionId, generateId, ledger[transactionId],
        Reverse(SelectSeq(ledger[transactionId].actions, LAMBDA a : a.status = "completed")), fault)

\* a query without the status filter
getRollbackableTransactions_AnyStatus == Reverse(SelectSeq(ledger, LAMBDA tx : tx.dryRun = FALSE))

\* lines 516-521: find({status: {$in: [...]}, dryRun: false}).sort({createdAt: -1})
getRollbackableTransactions ==
    Reverse(SelectSeq(ledger, LAMBDA tx : tx.status \in {"completed", "partially_completed"} /\ tx.dryRun = FALSE))

\* ------------------------------------------------------------ scanner.ts 53-264
ScannedFile(f, isDuplicate, duplicateOf) ==
    [path |-> f.path, name |-> basename(f.path), hash |-> f.hash, extension |-> toLowerCase(f.path.name.ext),
     category |-> categorizeFile(f.path), size |-> f.size, createdAt |-> f.createdAt, modifiedAt |-> f.modifiedAt,
     isDuplicate |-> isDuplicate, duplicateOf |-> duplicateOf]

\* a group left in listing order
ScanGroup_Unsorted(hashed, h) == SelectSeq(hashed, LAMBDA f : f.hash = h)

\* groupFiles.sort((a, b) => a.createdAt - b.createdAt), stable
ScanGroup(hashed, h) == SortFrom("keep-oldest", <<>>, SelectSeq(hashed, LAMBDA f : f.hash = h))

\* lines 141-157: the first file of the sorted group is the original
GroupOf(h, groupFiles) ==
    [hash |-> h,
     files |-> [i \in 1..Len(groupFiles) |->
                   ScannedFile(groupFiles[i], i > 1, IF i > 1 THEN groupFiles[1].path ELSE NoPath)],
     totalSize |-> SeqSum([i \in 1..Len(groupFiles) |-> groupFiles[i].size]),
     wastedSize |-> SeqSum([i \in 1..Len(groupFiles) - 1 |-> groupFiles[i + 1].size])]

DuplicateGroup(hashed, h) == GroupOf(h, ScanGroup(hashed, h))

DuplicateGroups(hashed, keys) == [k \in 1..Len(keys) |-> DuplicateGroup(hashed, keys[k])]

\* isDuplicate / duplicateOf of a scanned file: set on every file of a group but its first
IsMarked(duplicateGroups, f) ==
    \E k \in DOMAIN duplicateGroups : \E i \in 2..Len(duplicateGroups[k].files) :
        duplicateGroups[k].files[i].path = f.path

OriginalOf(duplicateGroups, f) ==
    duplicateGroups[CHOOSE k \in DOMAIN duplicateGroups : duplicateGroups[k].hash = f.hash].files[1].path

MarkOne(f, isDuplicate, original) == ScannedFile(f, isDuplicate, IF isDuplicate THEN original ELSE NoPath)

MarkEach(hashed, duplicateGroups) ==
    [i \in 1..Len(hashed) |->
        MarkOne(hashed[i], IsMarked(duplicateGroups, hashed[i]), OriginalOf(duplicateGroups, hashed[i]))]

\* lines 160-189: the totals and the returned report
ScanReport(scanId, dirPath, scanned, duplicateGroups) ==
    [scanId |-> scanId, scannedPath |-> dirPath, totalFiles |-> Len(scanned),
     totalSize |-> SeqSum([i \in 1..Len(scanned) |-> scanned[i].size]),
     duplicatesCount |-> SeqSum([k \in 1..Len(duplicateGroups) |-> Len(duplicateGroups[k].files) - 1]),
     duplicatesSize |-> SeqSum([k \in 1..Len(duplicateGroups) |-> duplicateGroups[k].wastedSize]),
     files |-> scanned, duplicateGroups |-> duplicateGroups]

ScanGrouped(scanId, dirPath, hashed, duplicateGroups) ==
    ScanReport(scanId, dirPath, MarkEach(hashed, duplicateGroups), duplicateGroups)

ScanHashed(scanId, dirPath, hashed) ==
    ScanGrouped(scanId, dirPath, hashed,
        DuplicateGroups(hashed, SelectSeq(HashKeys(hashed, {}),
                                          LAMBDA h : Len(SelectSeq(hashed, LAMBDA f : f.hash = h)) > 1)))

scan(dirPath, recursive) ==
    ScanHashed(Len(scans) + 1, dirPath, HashEach(files, getAllFiles(files, dirs, dirPath, recursive)))

\* ------------------------------------------------------------ initial trees
A(suf, ext) == MkName(<<>>, "a", suf, ext)

DocsDir == join(TargetDir, "Documents")

ImagesDir == join(TargetDir, "Images")

Bytes0 == <<0>>
Bytes1 == <<1>>
Bytes01 == <<0, 1>>

\* the candidate files of the initial tree: three copies of one content under
\* three directories, a file of the same size and different content, two
\* copies of a larger content, a text file in the folder of another category;
\* creation and modification times with ties
Slot(p, content, birth, mtime) == [path |-> p, file |-> [content |-> content, birth |-> birth, mtime |-> mtime]]

Slots == <<
    Slot(MkPath(TargetDir, A(<<>>, ".txt")), Bytes0, 2, 2),
    Slot(MkPath(SubDir, A(<<>>, ".txt")), Bytes0, 1, 3),
    Slot(MkPath(DocsDir, A(<<>>, ".txt")), Bytes0, 1, 2),
    Slot(MkPath(DocsDir, A(<<1>>, ".txt")), Bytes1, 3, 3),
    Slot(MkPath(DocsDir, A(<<2>>, ".txt")), Bytes01, 2, 1),
    Slot(MkPath(TargetDir, MkName(<<>>, "p", <<>>, ".jpg")), Bytes01, 2, 1),
    Slot(MkPath(ImagesDir, A(<<>>, ".txt")), Bytes1, 2, 2) >>

InitialClock == 4

\* no organize or dedupe is under way
NoRun == [op |-> "none"]

Init ==
    /\ \E chosen \in SUBSET DOMAIN Slots :
         /\ Cardinality(chosen) = MaxFiles
         /\ files = [p \in {Slots[i].path : i \in chosen} |->
                        Slots[CHOOSE j \in chosen : Slots[j].path = p].file]
         /\ dirs = {TargetDir} \cup UNION {Ancestors(Slots[i].path.dir) : i \in chosen}
    /\ ledger = <<>>
    /\ scans = <<>>
    /\ now = InitialClock
    /\ hist = <<>>
    /\ last = [op |-> "none", arg |-> "", error |-> "", result |-> [none |-> TRUE]]
    /\ run = NoRun

\* ------------------------------------------------------------ operations
TargetDirs == {TargetDir}

\* a path that does not exist, and the path of a regular file
MissingDir == <<"missing">>

NotADir == <<"T", "a.txt">>

AnyPaths == TargetDirs \cup {MissingDir, NotADir}

\* the messages of the two input errors
DirectoryNotFound == "Directory does not exist"

InvalidStrategy == "Invalid strategy"

\* a strategy outside the three of DedupeStrategy
AnyStrategies == Strategies \cup {"keep-newest"}

\* a request handler that passes every strategy on
validStrategies_Unchecked == AnyStrategies

\* route.ts 20-27 (POST /api/dedupe) and the dedupe command, part_007 61-65
validStrategies == {"keep-latest", "keep-oldest", "keep-largest"}

Runs == Len(scans) + Cardinality({i \in DOMAIN ledger : ledger[i].type # "rollback"})

Rollbacks == Cardinality({i \in DOMAIN ledger : ledger[i].type = "rollback"})

FaultyRuns == Cardinality({i \in DOMAIN hist : hist[i].fault # NoFault})

Faults(n) ==
    {NoFault} \cup {[at |-> i, os |-> o] : i \in 1..(IF FaultyRuns < MaxFaults THEN n ELSE 0), o \in OsOutcomes \ {"ok"}}

NoResult == [none |-> TRUE]

Invocation(op, arg, error, result) == [op |-> op, arg |-> arg, error |-> error, result |-> result]

Thrown(op, arg, error) ==
    /\ last' = Invocation(op, arg, error, NoResult)
    /\ UNCHANGED <<files, dirs, ledger, scans, now, hist, run>>

Store(op, arg, out, fault, stall) ==
    /\ files' = out.files
    /\ dirs' = out.dirs
    /\ hist' = Append(hist, [before |-> files, dirsBefore |-> dirs, after |-> out.files,
                             fault |-> fault, stall |-> stall, arg |-> arg, result |-> out.result])
    /\ last' = Invocation(op, arg, "", out.result)

ScanOn(paths, maxRuns) ==
    \E dirPath \in paths, recursive \in BOOLEAN :
        IF ~directoryExists(dirs, dirPath)
        THEN Thrown("scan", [dirPath |-> dirPath, recursive |-> recursive], DirectoryNotFound)
        ELSE /\ Runs < maxRuns
             /\ \E result \in {scan(dirPath, recursive)} :
                   /\ scans' = Append(scans, [scanId |-> result.scanId, scannedPath |-> result.scannedPath,
                                              totalFiles |-> result.totalFiles, totalSize |-> result.totalSize,
                                              duplicatesCount |-> result.duplicatesCount,
                                              duplicatesSize |-> result.duplicatesSize])
                   /\ last' = Invocation("scan", [dirPath |-> dirPath, recursive |-> recursive], "", result)
             /\ UNCHANGED <<files, dirs, ledger, now, hist, run>>

OrganizeOn(paths, maxRuns) ==
    \E dirPath \in paths, dryRun \in BOOLEAN, recursive \in BOOLEAN :
        IF ~directoryExists(dirs, dirPath)
        THEN Thrown("organize", [dirPath |-> dirPath, dryRun |-> dryRun, recursive |-> recursive], DirectoryNotFound)
        ELSE /\ Runs < maxRuns
             /\ \E fault \in Faults(IF dryRun THEN 0 ELSE Len(OrganizePlan(files, dirs, dirPath, recursive))) :
                  \E out \in {organize(dirPath, dryRun, recursive, fault)} :
                     /\ Store("organize", [dirPath |-> dirPath, dryRun |-> dryRun, recursive |-> recursive],
                              out, fault, FALSE)
                     /\ ledger' = Append(ledger, out.transaction)
             /\ now' = now + 1
             /\ UNCHANGED <<scans, run>>

\* the request handler checks the strategy, then DedupeService.dedupe the directory
DedupeOn(paths, strategies, maxRuns) ==
    \E dirPath \in paths, dryRun \in BOOLEAN, strategy \in strategies, moveToTrash \in BOOLEAN :
        IF strategy \notin validStrategies
        THEN Thrown("dedupe", [dirPath |-> dirPath, dryRun |-> dryRun, strategy |-> strategy,
                               moveToTrash |-> moveToTrash], InvalidStrategy)
        ELSE IF ~directoryExists(dirs, dirPath)
        THEN Thrown("dedupe", [dirPath |-> dirPath, dryRun |-> dryRun, strategy |-> strategy,
                               moveToTrash |-> moveToTrash], DirectoryNotFound)
        ELSE /\ Runs < maxRuns
             /\ \E n \in {IF dryRun THEN 0
                          ELSE Len(PlannedDeletes(FindDuplicates(HashedFiles(files, dirs, dirPath), strategy),
                                                  moveToTrash))} :
                   \E fault \in Faults(n), stall \in {s \in BOOLEAN : s => (moveToTrash /\ n > 1)} :
                     \E out \in {dedupe(dirPath, dryRun, strategy, moveToTrash, fault, stall)} :
                        /\ Store("dedupe", [dirPath |-> dirPath, dryRun |-> dryRun, strategy |-> strategy,
                                            moveToTrash |-> moveToTrash], out, fault, stall)
                        /\ ledger' = Append(ledger, out.transaction)
                        /\ now' = IF n = 0 THEN now + 1 ELSE TimestampAt(now, n, stall) + 1
             /\ UNCHANGED <<scans, run>>

Rollback ==
    \E transactionId \in 1..(Len(ledger) + 1) :
        IF RollbackError(transactionId) # ""
        THEN Thrown("rollback", transactionId, RollbackError(transactionId))
        ELSE /\ Rollbacks < MaxRollbacks
             /\ \E fault \in Faults(CountStatus(ledger[transactionId].actions, "completed")) :
                  \E out \in {rollback(transactionId, fault)} :
                     /\ Store("rollback", transactionId, out, fault, FALSE)
                     /\ ledger' = Append([ledger EXCEPT ![transactionId] = out.original], out.transaction)
             /\ now' = now + 1
             /\ UNCHANGED <<scans, run>>

ScanWithin(maxRuns) == ScanOn(TargetDirs, maxRuns)

OrganizeWithin(maxRuns) == OrganizeOn(TargetDirs, maxRuns)

DedupeWithin(maxRuns) == DedupeOn(TargetDirs, Strategies, maxRuns)

Scan == ScanWithin(MaxRuns)

Organize == OrganizeWithin(MaxRuns)

Dedupe == DedupeWithin(MaxRuns)

Next == Scan \/ Organize \/ Dedupe \/ Rollback

Spec == Init /\ [][Next]_vars

\* Repeated read-and-plan runs over one tree: scans and dedupes only, one run
\* more than Spec allows.
ScanAgain == ScanWithin(MaxRuns + 1)

DedupeAgain == DedupeWithin(MaxRuns + 1)

NextRepeat == ScanAgain \/ DedupeAgain

SpecRepeat == Init /\ [][NextRepeat]_vars

\* Organize run again over the tree it has left: one run more than Spec allows.
OrganizeAgain == OrganizeWithin(MaxRuns + 1)

SpecAgain == Init /\ [][OrganizeAgain]_vars

\* The three operations called with any path and any strategy, the missing
\* directory, the regular file and the unknown strategy among them.
ScanAny == ScanOn(AnyPaths, MaxRuns)

OrganizeAny == OrganizeOn(AnyPaths, MaxRuns)

DedupeAny == DedupeOn(AnyPaths, AnyStrategies, MaxRuns)

NextAny == ScanAny \/ OrganizeAny \/ DedupeAny

SpecAny == Init /\ [][NextAny]_vars

\* categorizeFile applied to paths with listed, unknown and missing extensions
\* in lower, upper and mixed case
Extensions == {".txt", ".TXT", ".Txt", ".jpg", ".JPG", ".Jpg", ".pdf", ".PDF", ".zip", ".ZIP", ".xyz", ".XYZ", ""}

CategorizeInputs == {MkPath(d, MkName(<<>>, b, <<>>, e)) : d \in {TargetDir, ImagesDir}, b \in {"a", "p"}, e \in Extensions}

Categorize ==
    /\ \E filePath \in CategorizeInputs :
          last' = Invocation("categorizeFile", filePath, "", categorizeFile(filePath))
    /\ UNCHANGED <<files, dirs, ledger, scans, now, hist, run>>

SpecCategorize == Init /\ [][Categorize]_vars

\* ------------------------------------------------------------ a shared tree
\* Between a stored run and its rollback another process works in the tree,
\* once: on a completed action of the run it removes the file at the recorded
\* destination, or puts a file of its own at the original path, or removes the
\* original directory that the run has left empty.
Foreign == [content |-> <<1, 1>>, birth |-> now, mtime |-> now]

EmptyDir(d) ==
    /\ d \in dirs \ {TargetDir, TrashDir}
    /\ \A p \in DOMAIN files : p.dir # d
    /\ \A e \in dirs : ~(Len(e) > Len(d) /\ SubSeq(e, 1, Len(d)) = d)

Interfere ==
    /\ last.op \in {"organize", "dedupe"}
    /\ last.error = ""
    /\ \E i \in CompletedIn(ledger[Len(ledger)].actions) :
         \E a \in {ledger[Len(ledger)].actions[i]} :
            \/ /\ fileExists(files, a.to)
               /\ files' = Remove(files, a.to)
               /\ dirs' = dirs
            \/ /\ ~fileExists(files, a.from)
               /\ dirname(a.from) \in dirs
               /\ files' = Put(files, a.from, Foreign)
               /\ dirs' = dirs
            \/ /\ EmptyDir(dirname(a.from))
               /\ files' = files
               /\ dirs' = dirs \ {dirname(a.from)}
    /\ last' = Invocation("other", "", "", NoResult)
    /\ UNCHANGED <<ledger, scans, now, hist, run>>

NextShared == Scan \/ Organize \/ Dedupe \/ Rollback \/ Interfere

SpecShared == Init /\ [][NextShared]_vars

\* ------------------------------------------------------------ one file at a time
\* organize and dedupe followed through their execution loops: the plan, the
\* directories ensured before the loop, one safeMove or safeDelete per step,
\* and the save after the loop. Stop is the process ending while the loop runs.
Running(op, arg, plan, duplicates, actions, fault, stall) ==
    [op |-> op, pc |-> "ensure", transactionId |-> generateId, arg |-> arg, plan |-> plan,
     duplicates |-> duplicates, i |-> 1,
     st |-> [files |-> files, dirs |-> dirs, actions |-> actions, okCount |-> 0, failedCount |-> 0],
     fault |-> fault, stall |-> stall, before |-> files, dirsBefore |-> dirs]

\* organizer.ts 113 and deduper.ts 162: the loop runs
Executes(r) == ~r.arg.dryRun /\ Len(r.st.actions) > 0

\* a loop that ends with the first failed action
LoopDone_EndsAtFailure(r) ==
    IF Executes(r) THEN r.pc = "exec" /\ (r.i > Len(r.st.actions) \/ r.st.failedCount > 0) ELSE r.pc = "ensure"

\* the loop has ended, or was never entered
LoopDone(r) == IF Executes(r) THEN r.pc = "exec" /\ r.i > Len(r.st.actions) ELSE r.pc = "ensure"

Advance(st) ==
    /\ files' = st.files
    /\ dirs' = st.dirs
    /\ run' = [run EXCEPT !.st = st, !.i = @ + 1]
    /\ UNCHANGED <<ledger, scans, now, hist, last>>

Saved(out) ==
    /\ ledger' = Append(ledger, out.transaction)
    /\ hist' = Append(hist, [before |-> run.before, dirsBefore |-> run.dirsBefore, after |-> files,
                             fault |-> run.fault, stall |-> run.stall, arg |-> run.arg, result |-> out.result])
    /\ last' = Invocation(run.op, run.arg, "", out.result)
    /\ run' = NoRun
    /\ UNCHANGED <<files, dirs, scans>>

OrganizeBegin ==
    /\ run.op = "none"
    /\ Runs < MaxRuns
    /\ \E dirPath \in TargetDirs, dryRun \in BOOLEAN, recursive \in BOOLEAN :
         /\ directoryExists(dirs, dirPath)
         /\ \E plan \in {OrganizePlan(files, dirs, dirPath, recursive)} :
              \E fault \in Faults(IF dryRun THEN 0 ELSE Len(plan)) :
                 run' = Running("organize", [dirPath |-> dirPath, dryRun |-> dryRun, recursive |-> recursive],
                                plan, <<>>, PlannedMoves(plan), fault, FALSE)
    /\ UNCHANGED <<files, dirs, ledger, scans, now, hist, last>>

OrganizeEnsure ==
    /\ run.op = "organize"
    /\ run.pc = "ensure"
    /\ Executes(run)
    /\ dirs' = EnsureCategories(dirs, run.arg.dirPath)
    /\ run' = [run EXCEPT !.pc = "exec", !.st.dirs = EnsureCategories(dirs, run.arg.dirPath)]
    /\ UNCHANGED <<files, ledger, scans, now, hist, last>>

OrganizeMove ==
    /\ run.op = "organize"
    /\ run.pc = "exec"
    /\ run.i <= Len(run.plan)
    /\ Advance(MoveStep(run.st, run.i, safeMove(files, dirs, run.plan[run.i].from, run.plan[run.i].to, TRUE,
                                                OsAt(run.fault, run.i), now)))

OrganizeFinish ==
    /\ run.op = "organize"
    /\ LoopDone(run)
    /\ Saved(OrganizeSave(run.transactionId, run.arg.dirPath, run.arg.dryRun, run.plan, run.st))
    /\ now' = now + 1

DedupeBegin ==
    /\ run.op = "none"
    /\ Runs < MaxRuns
    /\ \E dirPath \in TargetDirs, dryRun \in BOOLEAN, strategy \in Strategies, moveToTrash \in BOOLEAN :
         /\ directoryExists(dirs, dirPath)
         /\ \E duplicates \in {FindDuplicates(HashedFiles(files, dirs, dirPath), strategy)} :
              \E planned \in {PlannedDeletes(duplicates, moveToTrash)} :
                 \E fault \in Faults(IF dryRun THEN 0 ELSE Len(planned)),
                    stall \in {s \in BOOLEAN : s => (~dryRun /\ moveToTrash /\ Len(planned) > 1)} :
                    run' = Running("dedupe", [dirPath |-> dirPath, dryRun |-> dryRun, strategy |-> strategy,
                                              moveToTrash |-> moveToTrash],
                                   <<>>, duplicates, planned, fault, stall)
    /\ UNCHANGED <<files, dirs, ledger, scans, now, hist, last>>

DedupeEnsure ==
    /\ run.op = "dedupe"
    /\ run.pc = "ensure"
    /\ Executes(run)
    /\ dirs' = IF run.arg.moveToTrash THEN ensureDirectory(dirs, TrashDir) ELSE dirs
    /\ run' = [run EXCEPT !.pc = "exec",
                          !.st.dirs = IF run.arg.moveToTrash THEN ensureDirectory(dirs, TrashDir) ELSE dirs]
    /\ UNCHANGED <<files, ledger, scans, now, hist, last>>

DedupeDelete ==
    /\ run.op = "dedupe"
    /\ run.pc = "exec"
    /\ run.i <= Len(run.st.actions)
    /\ Advance(DeleteStep(run.st, run.i, safeDelete(files, dirs, run.st.actions[run.i].from, run.arg.moveToTrash,
                                                    OsAt(run.fault, run.i), TimestampAt(now, run.i, run.stall))))

DedupeFinish ==
    /\ run.op = "dedupe"
    /\ LoopDone(run)
    /\ Saved(DedupeCount(run.transactionId, run.arg.dirPath, run.arg.dryRun, run.arg.strategy, run.duplicates,
                         PlannedDeletes(run.duplicates, run.arg.moveToTrash), SumWasted(run.duplicates), run.st))
    /\ now' = IF Executes(run) THEN TimestampAt(now, Len(run.st.actions), run.stall) + 1 ELSE now + 1

\* the process ends inside the execution loop, before the save that follows it
Stop ==
    /\ run.op \in {"organize", "dedupe"}
    /\ run.pc = "exec"
    /\ run' = [run EXCEPT !.pc = "stopped"]
    /\ UNCHANGED <<files, dirs, ledger, scans, now, hist, last>>

NextSteps ==
    \/ OrganizeBegin \/ OrganizeEnsure \/ OrganizeMove \/ OrganizeFinish
    \/ DedupeBegin \/ DedupeEnsure \/ DedupeDelete \/ DedupeFinish
    \/ Stop

SpecSteps == Init /\ [][NextSteps]_vars

\* The loops followed one file at a time while another process works in the
\* same tree: it removes the source of an action the loop has not reached yet
\* (one such file at a time).
Vanish ==
    /\ run.op \in {"organize", "dedupe"}
    /\ run.pc = "exec"
    /\ \A j \in run.i..Len(run.st.actions) : fileExists(files, run.st.actions[j].from)
    /\ \E j \in run.i..Len(run.st.actions) :
         /\ files' = Remove(files, run.st.actions[j].from)
         /\ run' = [run EXCEPT !.st.files = Remove(files, run.st.actions[j].from)]
    /\ UNCHANGED <<dirs, ledger, scans, now, hist, last>>

NextVanish == NextSteps \/ Vanish

SpecVanish == Init /\ [][NextVanish]_vars

\* ------------------------------------------------------------ overlapping rollbacks
\* Two rollback invocations (two requests to the rollback route) after a run,
\* followed from one await on the database to the next: the read of the
\* original transaction with the three checks, the loop (its awaits wait for
\* no input or output, so no other request runs inside it), the save of the
\* rollback transaction, the save of the original transaction and the return.
Callers == {1, 2}

Idle ==
    [pc |-> "idle", transactionId |-> 0, original |-> NoResult, reversedActions |-> <<>>, end |-> NoResult,
     before |-> NoResult, dirsBefore |-> {}, rollbackTransactionId |-> 0, error |-> "", result |-> NoResult]

Calls == IF run.op = "rollback" THEN run.calls ELSE [c \in Callers |-> Idle]

SetCall(c, call) == run' = [op |-> "rollback", calls |-> [Calls EXCEPT ![c] = call]]

\* lines 310-322: the document is read and checked
RollbackFind(c) ==
    /\ Calls[c].pc = "idle"
    /\ \E transactionId \in DOMAIN ledger :
         \E error \in {RollbackError(transactionId)} :
            /\ SetCall(c, [Idle EXCEPT !.pc = IF error = "" THEN "found" ELSE "thrown",
                                       !.transactionId = transactionId,
                                       !.original = ledger[transactionId],
                                       !.error = error])
            /\ last' = IF error = "" THEN last ELSE Invocation("rollback", transactionId, error, NoResult)
    /\ UNCHANGED <<files, dirs, ledger, scans, now, hist>>

\* lines 324-412: the completed actions of the document read, in reverse
RollbackLoop(c) ==
    /\ Calls[c].pc = "found"
    /\ \E reversedActions \in {Reverse(SelectSeq(Calls[c].original.actions, LAMBDA a : a.status = "completed"))} :
         \E end \in {ExecRollback(reversedActions, 1,
                         [files |-> files, dirs |-> dirs, rollbackActions |-> <<>>, details |-> <<>>,
                          restoredCount |-> 0, failedCount |-> 0, skippedCount |-> 0], NoFault, now)} :
            /\ files' = end.files
            /\ dirs' = end.dirs
            /\ SetCall(c, [Calls[c] EXCEPT !.pc = "looped", !.reversedActions = reversedActions, !.end = end,
                                           !.before = files, !.dirsBefore = dirs])
    /\ UNCHANGED <<ledger, scans, now, hist, last>>

\* lines 414-432: rollbackTransaction.save(); the identifier drawn at line 324
\* is one no other transaction has, its value is fixed here
RollbackStore(c) ==
    /\ Calls[c].pc = "looped"
    /\ \E out \in {RollbackSave(Calls[c].transactionId, generateId, Calls[c].original,
                                Calls[c].reversedActions, Calls[c].end)} :
         /\ ledger' = Append(ledger, out.transaction)
         /\ hist' = Append(hist, [before |-> Calls[c].before, dirsBefore |-> Calls[c].dirsBefore,
                                  after |-> Calls[c].end.files, fault |-> NoFault, stall |-> FALSE,
                                  arg |-> Calls[c].transactionId, result |-> out.result])
         /\ SetCall(c, [Calls[c] EXCEPT !.pc = "stored", !.rollbackTransactionId = generateId,
                                        !.result = out.result])
    /\ UNCHANGED <<files, dirs, scans, now, last>>

\* lines 434-455: originalTransaction.save() writes the three modified fields,
\* and the report is returned
RollbackMark(c) ==
    /\ Calls[c].pc = "stored"
    /\ ledger' = [ledger EXCEPT ![Calls[c].transactionId] =
                      MarkRolledBack(@, Calls[c].rollbackTransactionId, now)]
    /\ last' = Invocation("rollback", Calls[c].transactionId, "", Calls[c].result)
    /\ SetCall(c, [Calls[c] EXCEPT !.pc = "done"])
    /\ now' = now + 1
    /\ UNCHANGED <<files, dirs, scans, hist>>

NextOverlap ==
    \/ Organize \/ Dedupe
    \/ \E c \in Callers : RollbackFind(c) \/ RollbackLoop(c) \/ RollbackStore(c) \/ RollbackMark(c)

SpecOverlap == Init /\ [][NextOverlap]_vars

\* ------------------------------------------------------------ properties
ContentsOf(fs) == [p \in DOMAIN fs |-> fs[p].content]

CompletedActions(t) == {i \in DOMAIN ledger[t].actions : ledger[t].actions[i].status = "completed"}

RolledBack(t, type) ==
    /\ ledger[t].type = type
    /\ ~ledger[t].dryRun
    /\ ledger[t].status = "rolled_back"

RollbackOf(t) == ledger[t].rollbackTransactionId

\* nothing changed the tree between the run t and its rollback, and no
\* operating-system call failed in either
Undisturbed(t) ==
    /\ hist[RollbackOf(t)].before = hist[t].after
    /\ hist[t].fault = NoFault
    /\ hist[RollbackOf(t)].fault = NoFault

\* C1: organize followed by the rollback of its transaction, with nothing
\* else changing the tree in between, leaves the (path, content) pairs of the
\* regular files as they were before the organize.
C1_OrganizeRollbackRoundTrip ==
    \A t \in DOMAIN ledger :
        (RolledBack(t, "organize") /\ Undisturbed(t))
            => ContentsOf(hist[RollbackOf(t)].after) = ContentsOf(hist[t].before)

\* C2: dedupe with moveToTrash followed by the rollback of its transaction,
\* with nothing else changing the tree or the trash in between, puts every
\* deleted file back at its original path with its content, and the rollback
\* counts and reports each of these actions as restored.
C2_DedupeTrashRollbackRoundTrip ==
    \A t \in DOMAIN ledger :
        (RolledBack(t, "dedupe") /\ Undisturbed(t)
            /\ \A i \in DOMAIN ledger[t].actions : ledger[t].actions[i].to # NoPath)
            => /\ \A i \in CompletedActions(t) :
                    LET from == ledger[t].actions[i].from
                    IN /\ from \in DOMAIN hist[RollbackOf(t)].after
                       /\ hist[RollbackOf(t)].after[from].content = hist[t].before[from].content
               /\ ContentsOf(hist[RollbackOf(t)].after) = ContentsOf(hist[t].before)
               /\ ledger[RollbackOf(t)].summary.restoredCount = Cardinality(CompletedActions(t))
               /\ (last.op = "rollback" /\ last.error = "" /\ last.arg = t)
                    => /\ Len(last.result.details) = Cardinality(CompletedActions(t))
                       /\ \A k \in DOMAIN last.result.details : last.result.details[k].status = "restored"

C2_Witness ==
    \E t \in DOMAIN ledger :
        /\ RolledBack(t, "dedupe") /\ Undisturbed(t)
        /\ Cardinality(CompletedActions(t)) >= 2
        /\ \A i \in DOMAIN ledger[t].actions : ledger[t].actions[i].to # NoPath
        /\ last.op = "rollback" /\ last.error = "" /\ last.arg = t
        /\ hist[t].stall

AlreadyRolledBack == "Transaction has already been rolled back"

CannotRollbackDryRun == "Cannot rollback a dry-run transaction"

\* the step is a rollback invocation on transaction t
RollbackInvoked(t) == last'.op = "rollback" /\ last'.arg = t

NothingStored == files' = files /\ dirs' = dirs /\ ledger' = ledger /\ scans' = scans

\* C3: once a rollback of transaction t has returned its report (t is
\* rolled_back), every later rollback invocation on t throws the
\* already-rolled-back error, changes no file or directory and stores nothing.
C3_SecondRollbackRejected ==
    [][\A t \in DOMAIN ledger :
          (ledger[t].status = "rolled_back" /\ RollbackInvoked(t))
              => (last'.error = AlreadyRolledBack /\ NothingStored)]_vars

C3_Witness ==
    /\ last.op = "rollback" /\ last.error = AlreadyRolledBack
    /\ ledger[last.arg].type = "organize"
    /\ ledger[ledger[last.arg].rollbackTransactionId].summary.restoredCount > 0

\* C4: a stored dry-run transaction always has status pending and no
\* completed action, and every rollback invocation on it throws the
\* cannot-rollback-dry-run error and changes neither filesystem nor ledger.
C4_DryRunInert ==
    /\ [](\A t \in DOMAIN ledger :
            ledger[t].dryRun => (ledger[t].status = "pending" /\ CompletedActions(t) = {}))
    /\ [][\A t \in DOMAIN ledger :
            (ledger[t].dryRun /\ RollbackInvoked(t))
                => (last'.error = CannotRollbackDryRun /\ NothingStored)]_vars

C4_Witness ==
    /\ last.op = "rollback" /\ last.error = CannotRollbackDryRun
    /\ ledger[last.arg].dryRun
    /\ Len(ledger[last.arg].actions) > 0

\* C5: when a rollback invocation on t returns its report, t is rolled_back,
\* carries a rolledBackAt time and the id of a transaction of type rollback
\* that this invocation stored; a rolled_back transaction keeps that status.
C5_RolledBackTerminal ==
    [][/\ \A t \in DOMAIN ledger :
            (RollbackInvoked(t) /\ last'.error = "")
                => /\ ledger'[t].status = "rolled_back"
                   /\ ledger'[t].rolledBackAt # 0
                   /\ ledger'[t].rollbackTransactionId = last'.result.rollbackTransactionId
                   /\ ledger'[t].rollbackTransactionId \in DOMAIN ledger' \ DOMAIN ledger
                   /\ ledger'[ledger'[t].rollbackTransactionId].type = "rollback"
       /\ \A t \in DOMAIN ledger :
            ledger[t].status = "rolled_back"
                => (t \in DOMAIN ledger' /\ ledger'[t].status = "rolled_back"
                    /\ ledger'[t].rollbackTransactionId = ledger[t].rollbackTransactionId)]_vars

C5_Witness ==
    /\ Len(ledger) = 3
    /\ ledger[1].status = "rolled_back" /\ ledger[2].status = "rolled_back"
    /\ ledger[3].type = "rollback"

\* ------------------------------------------------------------ duplicate groups
DedupeRuns == {t \in DOMAIN ledger : ledger[t].type = "dedupe"}

GroupsOf(t) == hist[t].result.duplicates

KeptOf(group) == {i \in DOMAIN group.files : group.files[i].isKept}

KeptIn(t) ==
    UNION {{GroupsOf(t)[k].files[i].path : i \in KeptOf(GroupsOf(t)[k])} : k \in DOMAIN GroupsOf(t)}

RemovedIn(t) ==
    UNION {{GroupsOf(t)[k].files[i].path : i \in DOMAIN GroupsOf(t)[k].files \ KeptOf(GroupsOf(t)[k])}
           : k \in DOMAIN GroupsOf(t)}

SameSnapshot(t, u) == hist[t].before = hist[u].before /\ hist[t].dirsBefore = hist[u].dirsBefore

SourcesOf(t) == {ledger[t].actions[i].from : i \in DOMAIN ledger[t].actions}

SizeIn(fs, p) == Len(fs[p].content)

\* the files below the target directory in the snapshot of run t
Enumerated(t) ==
    {q \in DOMAIN hist[t].before :
        /\ Len(q.dir) >= Len(ledger[t].targetPath)
        /\ SubSeq(q.dir, 1, Len(ledger[t].targetPath)) = ledger[t].targetPath}

\* those of them with the content of p, p among them
SameContent(t, p) == {q \in Enumerated(t) : hist[t].before[q].content = hist[t].before[p].content}

\* C7: the delete actions of a dedupe transaction have exactly the non-kept
\* members of its groups as sources, each once, never a kept member and never
\* a file whose content is unique; wastedSize of a group is the sum of the
\* sizes of its non-kept members.
C7_DeletesAreNonKept ==
    \A t \in DedupeRuns :
        /\ SourcesOf(t) = RemovedIn(t)
        /\ \A p \in RemovedIn(t) :
              Cardinality({i \in DOMAIN ledger[t].actions : ledger[t].actions[i].from = p}) = 1
        /\ SourcesOf(t) \cap KeptIn(t) = {}
        /\ \A p \in SourcesOf(t) : Cardinality(SameContent(t, p)) >= 2
        /\ \A k \in DOMAIN GroupsOf(t) :
              GroupsOf(t)[k].wastedSize
                  = SeqSum([i \in 1..Len(GroupsOf(t)[k].files) |->
                               IF GroupsOf(t)[k].files[i].isKept THEN 0
                               ELSE SizeIn(hist[t].before, GroupsOf(t)[k].files[i].path)])

C7_Witness ==
    \E t \in DedupeRuns :
        /\ Cardinality(SourcesOf(t)) >= 2
        /\ \E p \in Enumerated(t) : Cardinality(SameContent(t, p)) = 1
        /\ \E k \in DOMAIN GroupsOf(t) : GroupsOf(t)[k].wastedSize > 0

\* ------------------------------------------------------------ kept member
\* the key a strategy maximises, read from the snapshot
StrategyKey(strategy, f) ==
    CASE strategy = "keep-latest" -> f.mtime
      [] strategy = "keep-oldest" -> 0 - f.birth
      [] strategy = "keep-largest" -> Len(f.content)

\* the position of p in the listing of the snapshot of run t
ListingIndex(t, p) ==
    IndexOf(getAllFiles(hist[t].before, hist[t].dirsBefore, ledger[t].targetPath, TRUE), p)

KeyIn(t, p) == StrategyKey(ledger[t].strategy, hist[t].before[p])

\* kept is a member no member beats, and the first such member in the listing
KeptIsFirstBest(t, group, kept) ==
    \A i \in DOMAIN group.files :
        /\ KeyIn(t, group.files[i].path) <= KeyIn(t, kept)
        /\ KeyIn(t, group.files[i].path) = KeyIn(t, kept)
              => ListingIndex(t, kept) <= ListingIndex(t, group.files[i].path)

\* C8: the kept member of a group has the greatest modification time under
\* keep-latest, the smallest creation time under keep-oldest, the greatest
\* size under keep-largest, and is the first such member in the listing order.
C8_KeptByStrategy ==
    \A t \in DedupeRuns : \A k \in DOMAIN GroupsOf(t) : \A i \in KeptOf(GroupsOf(t)[k]) :
        KeptIsFirstBest(t, GroupsOf(t)[k], GroupsOf(t)[k].files[i].path)

\* a group of three in which the two members that tie on the key come after a
\* member that loses
C8_Witness ==
    \E t \in DedupeRuns : \E k \in DOMAIN GroupsOf(t) : \E i \in KeptOf(GroupsOf(t)[k]) :
        /\ ledger[t].strategy = "keep-oldest"
        /\ Len(GroupsOf(t)[k].files) = 3
        /\ Cardinality({j \in 1..3 : KeyIn(t, GroupsOf(t)[k].files[j].path)
                                        = KeyIn(t, GroupsOf(t)[k].files[i].path)}) = 2
        /\ \E j \in 1..3 : ListingIndex(t, GroupsOf(t)[k].files[j].path)
                              < ListingIndex(t, GroupsOf(t)[k].files[i].path)

\* ------------------------------------------------------------ content identity
\* p and q are members of one group
Grouped(groups, p, q) ==
    \E k \in DOMAIN groups : \E i, j \in DOMAIN groups[k].files :
        groups[k].files[i].path = p /\ groups[k].files[j].path = q

ScannedPaths == {last.result.files[i].path : i \in DOMAIN last.result.files}

\* C9: a scan and a dedupe put two different enumerated files into one
\* duplicate group exactly when their contents are the same byte sequence.
C9_GroupedIffSameContent ==
    /\ (last.op = "scan" /\ last.error = "")
          => \A p, q \in ScannedPaths :
                p # q => (Grouped(last.result.duplicateGroups, p, q) <=> files[p].content = files[q].content)
    /\ \A t \in DedupeRuns : \A p, q \in Enumerated(t) :
          p # q => (Grouped(GroupsOf(t), p, q) <=> hist[t].before[p].content = hist[t].before[q].content)

\* a scan over two files of the same length and different content, next to a
\* pair of equal content with different names
C9_Witness ==
    /\ last.op = "scan" /\ last.error = ""
    /\ \E p, q \in ScannedPaths :
          /\ Len(files[p].content) = Len(files[q].content)
          /\ files[p].content # files[q].content
    /\ \E p, q \in ScannedPaths :
          p.name # q.name /\ Grouped(last.result.duplicateGroups, p, q)

\* ------------------------------------------------------------ recorded destinations
Executed == {t \in DOMAIN ledger : ledger[t].type \in {"organize", "dedupe"} /\ ~ledger[t].dryRun}

\* whether the deletes of run t went to the trash
ToTrash(t) == hist[t].arg.moveToTrash

\* the files right after the first n actions of run t were executed
FilesAfter(t, n) ==
    IF n = 0 THEN hist[t].before
    ELSE IF ledger[t].type = "organize"
         THEN ExecMoves(SubSeq(hist[t].result.plan, 1, n), 1,
                        [files |-> hist[t].before, dirs |-> EnsureCategories(hist[t].dirsBefore, ledger[t].targetPath),
                         actions |-> PlannedMoves(hist[t].result.plan), okCount |-> 0, failedCount |-> 0],
                        hist[t].fault, ledger[t].completedAt).files
         ELSE ExecDeletes(1,
                        [files |-> hist[t].before, dirs |-> ensureDirectory(hist[t].dirsBefore, TrashDir),
                         actions |-> SubSeq(PlannedDeletes(GroupsOf(t), ToTrash(t)), 1, n),
                         okCount |-> 0, failedCount |-> 0],
                        ToTrash(t), hist[t].fault, ledger[t].completedAt, hist[t].stall).files

\* the file that was at from before the action is at to after it, and no
\* longer at from; a copy made after a failed rename carries new times
ArrivedAt(prev, next, from, to) ==
    /\ from \in DOMAIN prev
    /\ from \notin DOMAIN next
    /\ to \in DOMAIN next
    /\ next[to].content = prev[from].content
    /\ \/ next[to] = prev[from]
       \/ next[to].birth > prev[from].birth

\* C10: for every completed action of a stored organize or dedupe transaction,
\* the file the action took from its source was, right after the action, at
\* the path the ledger records in to; a permanent delete records no path.
C10_RecordedDestination ==
    \A t \in Executed : \A i \in CompletedActions(t) :
        IF ledger[t].type = "dedupe" /\ ~ToTrash(t)
        THEN /\ ledger[t].actions[i].to = NoPath
             /\ ledger[t].actions[i].from \notin DOMAIN FilesAfter(t, i)
        ELSE ArrivedAt(FilesAfter(t, i - 1), FilesAfter(t, i), ledger[t].actions[i].from, ledger[t].actions[i].to)

\* the planned destination of action i of run t
PlannedTo(t, i) ==
    IF ledger[t].type = "organize" THEN hist[t].result.plan[i].to
    ELSE PlannedDeletes(GroupsOf(t), ToTrash(t))[i].to

\* a completed action whose recorded destination is a collision rename and
\* not the planned destination
C10_Witness ==
    \E t \in Executed : \E i \in CompletedActions(t) :
        /\ ledger[t].actions[i].to # PlannedTo(t, i)
        /\ ledger[t].actions[i].to.name.suf # <<>>
        /\ ledger[t].actions[i].to \in DOMAIN FilesAfter(t, i)

\* ------------------------------------------------------------ collision resolution
\* the runs whose actions go through safeMove with collision handling
MovingRuns == {t \in Executed : ledger[t].type = "organize" \/ ToTrash(t)}

\* the destination that action i of run t asks safeMove for
RequestedTo(t, i) ==
    IF ledger[t].type = "organize" THEN hist[t].result.plan[i].to
    ELSE MkPath(TrashDir, TrashName(TimestampAt(ledger[t].completedAt, i, hist[t].stall),
                                    basename(ledger[t].actions[i].from)))

\* action i of run t found its source in place, its destination taken, and
\* every operating-system call worked
Collided(t, i) ==
    /\ ledger[t].actions[i].from \in DOMAIN FilesAfter(t, i - 1)
    /\ RequestedTo(t, i) \in DOMAIN FilesAfter(t, i - 1)
    /\ OsAt(hist[t].fault, i) = "ok"

\* the least k >= 1 for which p with the suffix _k is not a file of fs
FirstFree(fs, p) ==
    CHOOSE k \in 1..(Cardinality(DOMAIN fs) + 1) :
        /\ WithSuffix(p, k) \notin DOMAIN fs
        /\ \A j \in 1..(k - 1) : WithSuffix(p, j) \in DOMAIN fs

\* every file but the one at from is where and what it was
OthersUntouched(prev, next, from) == \A q \in DOMAIN prev \ {from} : q \in DOMAIN next /\ next[q] = prev[q]

\* C11: a move with collision handling whose requested destination exists
\* puts the file at the destination with the first free numeric suffix,
\* reports that path, and leaves every existing file untouched.
C11_FirstFreeSuffix ==
    \A t \in MovingRuns : \A i \in DOMAIN ledger[t].actions :
        Collided(t, i)
            => /\ ledger[t].actions[i].status = "completed"
               /\ ledger[t].actions[i].to
                     = WithSuffix(RequestedTo(t, i), FirstFree(FilesAfter(t, i - 1), RequestedTo(t, i)))
               /\ ArrivedAt(FilesAfter(t, i - 1), FilesAfter(t, i),
                            ledger[t].actions[i].from, ledger[t].actions[i].to)
               /\ OthersUntouched(FilesAfter(t, i - 1), FilesAfter(t, i), ledger[t].actions[i].from)

\* the requested destination and every alternative the loop tries exist
Exhausted(fs, p) ==
    /\ p \in DOMAIN fs
    /\ \A k \in 1..(CollisionLimit - 1) : WithSuffix(p, k) \in DOMAIN fs

CollisionUnresolved == "CollisionUnresolved"

\* C12: a move whose requested destination and all numbered alternatives up
\* to the attempt bound exist fails with the collision-unresolved error,
\* leaves the source in place and overwrites nothing.
C12_ExhaustionFailsSafely ==
    \A t \in MovingRuns : \A i \in DOMAIN ledger[t].actions :
        (Collided(t, i) /\ Exhausted(FilesAfter(t, i - 1), RequestedTo(t, i)))
            => /\ ledger[t].actions[i].status = "failed"
               /\ ledger[t].actions[i].error = CollisionUnresolved
               /\ FilesAfter(t, i) = FilesAfter(t, i - 1)

\* ------------------------------------------------------------ trash entries
TrashRuns == {t \in Executed : ledger[t].type = "dedupe" /\ ToTrash(t)}

\* name is the timestamp, then the original name, then at most one more counter
TrashNamed(name, timestamp, original) ==
    /\ name.pre = <<timestamp>> \o original.pre
    /\ name.base = original.base
    /\ name.ext = original.ext
    /\ \/ name.suf = original.suf
       \/ \E k \in 1..(CollisionLimit - 1) : name.suf = Append(original.suf, k)

TrashEntries(fs) == {q \in DOMAIN fs : q.dir = TrashDir}

\* C13: every successful soft delete puts the file at a trash path that did
\* not exist before the call, named by the timestamp and the original name
\* (with a numeric suffix on a collision), leaves every trash entry as it was,
\* and that path is the one recorded for the action.
C13_TrashNeverOverwritten ==
    \A t \in TrashRuns : \A i \in CompletedActions(t) :
        /\ ledger[t].actions[i].to \notin DOMAIN FilesAfter(t, i - 1)
        /\ ledger[t].actions[i].to.dir = TrashDir
        /\ TrashNamed(ledger[t].actions[i].to.name,
                      TimestampAt(ledger[t].completedAt, i, hist[t].stall),
                      ledger[t].actions[i].from.name)
        /\ ArrivedAt(FilesAfter(t, i - 1), FilesAfter(t, i), ledger[t].actions[i].from, ledger[t].actions[i].to)
        /\ \A q \in TrashEntries(FilesAfter(t, i - 1)) :
              q \in DOMAIN FilesAfter(t, i) /\ FilesAfter(t, i)[q] = FilesAfter(t, i - 1)[q]

\* two files of one base name deleted at one timestamp, both in the trash
C13_Witness ==
    \E t \in TrashRuns : \E i, j \in CompletedActions(t) :
        /\ i < j
        /\ basename(ledger[t].actions[i].from) = basename(ledger[t].actions[j].from)
        /\ TimestampAt(ledger[t].completedAt, i, hist[t].stall) = TimestampAt(ledger[t].completedAt, j, hist[t].stall)
        /\ ledger[t].actions[i].to # ledger[t].actions[j].to
        /\ {ledger[t].actions[i].to, ledger[t].actions[j].to} \subseteq DOMAIN hist[t].after

\* the run under way has changed the tree: a directory created, a file moved
\* or deleted
Mutated == run.op \in {"organize", "dedupe"} /\ (files # run.before \/ dirs # run.dirsBefore)

\* the stored records of the run under way
StoredRun == {t \in DOMAIN ledger : ledger[t].transactionId = run.transactionId}

\* C14: in a non-dry-run organize or dedupe the tree is changed only once the
\* transaction record of the run is in storage.
C14_RecordBeforeMutation ==
    (Mutated /\ ~run.arg.dryRun) => StoredRun # {}

\* the actions the stopped run has executed with success
Done(r) == {i \in 1..(r.i - 1) : r.st.actions[i].status = "completed"}

\* C15: when the process stops after some action of the run and before the
\* next, the stored transaction of the run marks as completed exactly the
\* actions executed.
C15_StoppedRunIsStored ==
    (run.op \in {"organize", "dedupe"} /\ run.pc = "stopped" /\ run.i \in 2..Len(run.st.actions)) =>
        \E t \in StoredRun :
            {i \in DOMAIN ledger[t].actions : ledger[t].actions[i].status = "completed"} = Done(run)

RollbackRuns == {r \in DOMAIN ledger : ledger[r].type = "rollback"}

CompletedOf(t) == SelectSeq(ledger[t].actions, LAMBDA a : a.status = "completed")

\* the k-th detail and the k-th restore action are those of the action a
Restores(detail, restore, a) ==
    /\ detail.to = a.from
    /\ detail.from = (IF a.to # NoPath THEN a.to ELSE a.from)
    /\ restore.type = "restore"
    /\ restore.to = a.from
    /\ restore.from = detail.from

InReverse(details, restores, done) ==
    /\ Len(details) = Len(done)
    /\ Len(restores) = Len(done)
    /\ \A k \in DOMAIN done : Restores(details[k], restores[k], done[Len(done) + 1 - k])

\* the path p holds the same file, or none, in both trees
SameAt(prev, next, p) == IF p \in DOMAIN prev THEN p \in DOMAIN next /\ next[p] = prev[p] ELSE p \notin DOMAIN next

\* C16: a rollback handles the completed actions of the original transaction,
\* each once and in reverse order: its details and its restore actions are
\* those actions from the last to the first, and the source of an action that
\* is not completed is as it was before the rollback.
C16_CompletedInReverse ==
    \A r \in RollbackRuns :
        /\ InReverse(hist[r].result.details, ledger[r].actions, CompletedOf(hist[r].arg))
        /\ \A i \in DOMAIN ledger[hist[r].arg].actions :
              ledger[hist[r].arg].actions[i].status # "completed" =>
                 SameAt(hist[r].before, hist[r].after, ledger[hist[r].arg].actions[i].from)

\* the rollback of a partially completed transaction with two completed
\* actions and one that is not
C16_Witness ==
    \E r \in RollbackRuns :
        /\ Len(CompletedOf(hist[r].arg)) >= 2
        /\ Len(ledger[hist[r].arg].actions) > Len(CompletedOf(hist[r].arg))
        /\ hist[r].result.summary.restoredCount >= 2

\* the rollbacks of dedupe runs that deleted permanently
PermanentRollbacks ==
    {r \in RollbackRuns : ledger[hist[r].arg].type = "dedupe" /\ ~hist[hist[r].arg].arg.moveToTrash}

PermanentlyDeleted == "File was permanently deleted or trash file not found"

\* C17: the rollback of a dedupe run with moveToTrash = false reports every
\* completed delete as skipped, with the reason of a permanent deletion or a
\* missing trash file, restores none and creates no file.
C17_PermanentDeletesSkipped ==
    \A r \in PermanentRollbacks :
        /\ Len(hist[r].result.details) = Len(CompletedOf(hist[r].arg))
        /\ \A k \in DOMAIN hist[r].result.details :
              /\ hist[r].result.details[k].status = "skipped"
              /\ hist[r].result.details[k].error = PermanentlyDeleted
        /\ hist[r].result.summary.restoredCount = 0
        /\ hist[r].result.summary.skippedCount = Len(CompletedOf(hist[r].arg))
        /\ hist[r].after = hist[r].before

\* a rollback of a dedupe run that deleted two files permanently
C17_Witness ==
    \E r \in PermanentRollbacks :
        /\ Len(CompletedOf(hist[r].arg)) >= 2
        /\ \A i \in DOMAIN CompletedOf(hist[r].arg) : CompletedOf(hist[r].arg)[i].from \notin DOMAIN hist[r].before

OrganizeRuns == {t \in DOMAIN ledger : ledger[t].type = "organize"}

\* the regular files the run t lists: the children of the target, or with
\* recursive the whole tree under it
Listed(t) ==
    {p \in Enumerated(t) : hist[t].arg.recursive \/ p.dir = hist[t].arg.dirPath}

\* the file p is in the folder <target>/<its own category>
Placed(t, p) == p.dir = join(hist[t].arg.dirPath, categorizeFile(p))

PlannedFor(t, p) == {i \in DOMAIN hist[t].result.plan : hist[t].result.plan[i].from = p}

\* C18: the plan of an organize has exactly one move, to
\* <target>/<Category>/<filename>, for every listed file that is not in the
\* folder of its own category, none for a file that is, and no other move.
C18_PlanCompleteAndExact ==
    \A t \in OrganizeRuns :
        /\ \A p \in Listed(t) :
              IF Placed(t, p) THEN PlannedFor(t, p) = {}
              ELSE /\ Cardinality(PlannedFor(t, p)) = 1
                   /\ \A i \in PlannedFor(t, p) :
                         hist[t].result.plan[i].to = MkPath(join(hist[t].arg.dirPath, categorizeFile(p)), p.name)
        /\ \A i \in DOMAIN hist[t].result.plan : hist[t].result.plan[i].from \in Listed(t)

\* the organize u runs on the tree the organize t has left, for the same
\* target and the same recursive flag, and t has moved every file of its plan
RunAgain(t, u) ==
    /\ t < u
    /\ ~ledger[t].dryRun
    /\ ledger[t].summary.failedCount = 0
    /\ hist[u].before = hist[t].after
    /\ hist[u].arg.dirPath = hist[t].arg.dirPath
    /\ hist[u].arg.recursive = hist[t].arg.recursive

\* C19: an organize that follows a non-dry-run organize without failures, on
\* the tree it has left and with the same target and recursive flag, plans no
\* move and moves no file.
C19_SecondOrganizePlansNothing ==
    \A t, u \in OrganizeRuns :
        RunAgain(t, u) =>
            /\ hist[u].result.plan = <<>>
            /\ ledger[u].actions = <<>>
            /\ hist[u].result.summary.movedCount = 0
            /\ hist[u].after = hist[u].before

\* the first run has moved two files and the second is not a dry run
C19_Witness ==
    \E t, u \in OrganizeRuns :
        /\ RunAgain(t, u)
        /\ ledger[t].summary.movedCount >= 2
        /\ ~ledger[u].dryRun

\* the step is a dry-run organize or dedupe that returns its result
DryRunReturns ==
    /\ last'.op \in {"organize", "dedupe"}
    /\ last'.error = ""
    /\ last'.arg.dryRun

\* the number of actions the result of the invocation reports as planned
PlannedCount(invocation) ==
    IF invocation.op = "organize" THEN Len(invocation.result.plan)
    ELSE invocation.result.summary.totalDuplicateFiles

\* what a dry run stores: its transaction, pending, every planned action pending
DryRunRecord(tx, invocation) ==
    /\ tx.transactionId = invocation.result.transactionId
    /\ tx.type = invocation.op
    /\ tx.dryRun
    /\ tx.status = "pending"
    /\ Len(tx.actions) = PlannedCount(invocation)
    /\ \A i \in DOMAIN tx.actions : tx.actions[i].status = "pending"

\* C20: a dry-run organize or dedupe changes no file and no directory, and
\* stores nothing but one transaction with dryRun = true, status pending and
\* all its planned actions pending.
C20_DryRunLeavesTree ==
    [][DryRunReturns =>
          /\ files' = files
          /\ dirs' = dirs
          /\ scans' = scans
          /\ Len(ledger') = Len(ledger) + 1
          /\ SubSeq(ledger', 1, Len(ledger)) = ledger
          /\ DryRunRecord(ledger'[Len(ledger')], last')]_vars

\* a dry-run organize with two planned moves has returned, and neither the
\* folder of a category nor the trash directory exists
C20_Witness ==
    /\ last.op = "organize"
    /\ last.error = ""
    /\ last.arg.dryRun
    /\ Len(last.result.plan) >= 2
    /\ ledger[last.result.transactionId].dryRun
    /\ join(last.arg.dirPath, "Videos") \notin dirs
    /\ TrashDir \notin dirs

\* ------------------------------------------------------------ outcome of a run
\* the step is a non-dry-run organize or dedupe that stores its transaction
RunStored ==
    /\ last'.op \in {"organize", "dedupe"}
    /\ last'.error = ""
    /\ ~last'.arg.dryRun
    /\ Len(ledger') = Len(ledger) + 1

FailedIn(actions) == {i \in DOMAIN actions : actions[i].status = "failed"}

\* C21: the transaction a non-dry-run organize or dedupe stores is completed
\* if no action of the run failed, and partially_completed otherwise.
C21_StatusByFailures ==
    [][RunStored =>
          /\ ledger'[Len(ledger')].type = last'.op
          /\ ledger'[Len(ledger')].status =
                IF FailedIn(ledger'[Len(ledger')].actions) = {} THEN "completed" ELSE "partially_completed"]_vars

\* a stored run with a failed and a completed action, partially completed
C21_Witness ==
    \E t \in Executed :
        /\ ledger[t].status = "partially_completed"
        /\ FailedIn(ledger[t].actions) # {}
        /\ CompletedActions(t) # {}

Attempted(action) == action.status \in {"completed", "failed"}

\* the counter of successful actions of the stored run t
DoneCount(t) == IF ledger[t].type = "organize" THEN ledger[t].summary.movedCount ELSE ledger[t].summary.deletedCount

\* inside the loop the actions before position i are attempted, the others pending
InPlanOrder(r) ==
    \A j \in DOMAIN r.st.actions :
        IF j < r.i THEN Attempted(r.st.actions[j]) ELSE r.st.actions[j].status = "pending"

\* the counters of a stored run are the numbers of its completed and failed actions
Counted(t) ==
    /\ \A j \in DOMAIN ledger[t].actions : Attempted(ledger[t].actions[j])
    /\ DoneCount(t) = Cardinality(CompletedActions(t))
    /\ ledger[t].summary.failedCount = Cardinality(FailedIn(ledger[t].actions))
    /\ DoneCount(t) + ledger[t].summary.failedCount = ledger[t].summary.totalProcessed
    /\ ledger[t].summary.totalProcessed = Len(ledger[t].actions)
    /\ Len(ledger[t].actions) = PlannedCount([op |-> ledger[t].type, result |-> hist[t].result])

\* C22: a non-dry-run organize or dedupe attempts every planned action once,
\* in plan order, whether or not an earlier one failed: each step of the loop
\* settles the action at its position and no other; the stored run has no
\* pending action, and its counters are the numbers of completed and of failed
\* actions, which sum to totalProcessed, the number of planned actions.
C22_BestEffortBatch ==
    /\ []((run.op \in {"organize", "dedupe"} /\ run.pc \in {"exec", "stopped"}) => InPlanOrder(run))
    /\ [](\A t \in Executed : Counted(t))
    /\ [][(run.op \in {"organize", "dedupe"} /\ run.pc = "exec" /\ run'.op = run.op /\ run'.i # run.i) =>
             /\ run'.i = run.i + 1
             /\ Attempted(run'.st.actions[run.i])
             /\ \A j \in DOMAIN run.st.actions \ {run.i} : run'.st.actions[j] = run.st.actions[j]]_vars

\* a stored run whose first action failed and whose later actions completed
C22_Witness ==
    \E t \in Executed :
        /\ Len(ledger[t].actions) >= 3
        /\ ledger[t].actions[1].status = "failed"
        /\ \A j \in 2..Len(ledger[t].actions) : ledger[t].actions[j].status = "completed"
        /\ run.op = "none"

\* ------------------------------------------------------------ rejected input
\* what an invocation leaves alone when it throws
NothingDone ==
    /\ files' = files
    /\ dirs' = dirs
    /\ ledger' = ledger
    /\ scans' = scans
    /\ hist' = hist

\* the step is a scan, organize or dedupe of a path that is no directory
\* (with a strategy of DedupeStrategy, for a dedupe)
InvalidPathCall ==
    /\ last'.op \in {"scan", "organize", "dedupe"}
    /\ last'.arg.dirPath \notin dirs
    /\ last'.op = "dedupe" => last'.arg.strategy \in Strategies

\* C23: scan, organize and dedupe of a path that does not exist or is not a
\* directory throw the directory-not-found error, change neither file nor
\* directory and store neither scan record nor transaction.
C23_InvalidPathRejected ==
    [][InvalidPathCall => (last'.error = DirectoryNotFound /\ NothingDone)]_vars

\* a non-dry-run organize of the path of the regular file T/a.txt has thrown
C23_Witness ==
    /\ last.op = "organize"
    /\ last.error = DirectoryNotFound
    /\ last.arg.dirPath = NotADir
    /\ ~last.arg.dryRun
    /\ MkPath(TargetDir, A(<<>>, ".txt")) \in DOMAIN files

TransactionNotFound == "Transaction not found"

\* the fatal error of a rollback of transaction id t, "" if it has none
FatalFor(t) ==
    IF t \notin DOMAIN ledger THEN TransactionNotFound
    ELSE IF ledger[t].status = "rolled_back" THEN AlreadyRolledBack
    ELSE IF ledger[t].dryRun THEN CannotRollbackDryRun
    ELSE ""

\* C25: a rollback of an unknown, an already rolled back or a dry-run
\* transaction throws that error and does nothing else: files and directories
\* are unchanged, no rollback transaction is stored and the transaction looked
\* up is as it was; any other rollback throws none of them.
C25_FatalRollbackDoesNothing ==
    [][last'.op = "rollback" =>
          IF FatalFor(last'.arg) # ""
          THEN last'.error = FatalFor(last'.arg) /\ NothingDone
          ELSE last'.error = ""]_vars

\* a rollback of an unknown id has thrown while the ledger holds a completed
\* run with a completed action
C25_Witness ==
    /\ last.op = "rollback"
    /\ last.error = TransactionNotFound
    /\ \E t \in Executed : ledger[t].status = "completed" /\ CompletedActions(t) # {}

\* ------------------------------------------------------------ rollbackable query
Rollbackable == {t \in DOMAIN ledger : ~ledger[t].dryRun /\ ledger[t].status \in {"completed", "partially_completed"}}

Returned == {getRollbackableTransactions[i].transactionId : i \in DOMAIN getRollbackableTransactions}

\* C26: the rollbackable query returns, each once, the stored transactions
\* with dryRun = false and status completed or partially_completed, and no
\* other: none that is rolled back, none of a dry run.
C26_QueryReturnsRollbackable ==
    /\ Returned = Rollbackable
    /\ Len(getRollbackableTransactions) = Cardinality(Rollbackable)
    /\ \A i \in DOMAIN getRollbackableTransactions :
          getRollbackableTransactions[i] = ledger[getRollbackableTransactions[i].transactionId]
    /\ \A t \in DOMAIN ledger : (ledger[t].status = "rolled_back" \/ ledger[t].dryRun) => t \notin Returned

\* a partially completed rollback is returned, the run it rolled back is not
C26_Witness ==
    \E t, r \in DOMAIN ledger :
        /\ ledger[t].status = "rolled_back"
        /\ t \notin Returned
        /\ ledger[r].status = "partially_completed"
        /\ r \in Returned

\* C27: the rollbackable query never returns a transaction of type rollback.
C27_RollbackNotRollbackable ==
    \A i \in DOMAIN getRollbackableTransactions : getRollbackableTransactions[i].type # "rollback"

\* ------------------------------------------------------------ saved bytes
\* the bytes the planned deletes of run t would free
PlannedBytes(t) == SeqSum([i \in DOMAIN ledger[t].actions |-> ledger[t].actions[i].fileSize])

\* r is an integer nearest to s * d / n
NearestShare(r, s, d, n) == 2 * n * r - n <= 2 * s * d /\ 2 * s * d <= 2 * n * r + n

\* the savedBytes of a dedupe with planned total s, d of n deletes completed
ScaledSaving(r, s, d, n) ==
    /\ n > 0 => NearestShare(r, s, d, n)
    /\ r <= s
    /\ (n > 0 /\ d = n) => r = s
    /\ (d = 0 \/ n = 0) => r = 0

\* C28: the savedBytes a non-dry-run dedupe records is the planned total of
\* wasted bytes times completed deletes over planned deletes, rounded: at
\* most the planned total, the planned total when every delete completed, 0
\* when none did or none was planned; the report carries the same number. A
\* dry run records 0 and reports the planned total.
C28_SavedBytesScaled ==
    \A t \in DedupeRuns :
        IF ledger[t].dryRun
        THEN /\ ledger[t].summary.savedBytes = 0
             /\ hist[t].result.summary.savedBytes = PlannedBytes(t)
        ELSE /\ ScaledSaving(ledger[t].summary.savedBytes, PlannedBytes(t),
                             Cardinality(CompletedActions(t)), Len(ledger[t].actions))
             /\ hist[t].result.summary.savedBytes = ledger[t].summary.savedBytes

\* one of two planned deletes of different sizes completed, and the share of
\* the planned total is not a whole number
C28_Witness ==
    \E t \in DedupeRuns :
        /\ ~ledger[t].dryRun
        /\ Len(ledger[t].actions) = 2
        /\ Cardinality(CompletedActions(t)) = 1
        /\ PlannedBytes(t) = 3
        /\ ledger[t].summary.savedBytes \in {1, 2}

\* ------------------------------------------------------------ scan report
ScanReturned == last.op = "scan" /\ last.error = ""

\* the positions in the report of the files with the content of the i-th
SharedWith(report, i) ==
    {j \in DOMAIN report.files : files[report.files[j].path].content = files[report.files[i].path].content}

\* the i-th file is the oldest of the positions in group, the first listed among the oldest
OldestIn(report, group, i) ==
    \A j \in group :
        \/ files[report.files[i].path].birth < files[report.files[j].path].birth
        \/ files[report.files[i].path].birth = files[report.files[j].path].birth /\ i <= j

Marked(report) == {i \in DOMAIN report.files : report.files[i].isDuplicate}

\* the i-th file of the report is marked as the claim says
MarkedRight(report, i) ==
    IF OldestIn(report, SharedWith(report, i), i)
    THEN ~report.files[i].isDuplicate /\ report.files[i].duplicateOf = NoPath
    ELSE /\ report.files[i].isDuplicate
         /\ \E j \in SharedWith(report, i) :
               OldestIn(report, SharedWith(report, i), j) /\ report.files[i].duplicateOf = report.files[j].path

\* C29: in a scan report, of the files that share a content the one created
\* first (the first listed on a tie) is not marked, every other one is marked
\* a duplicate of it, a file with a content of its own is not marked,
\* duplicatesCount is the number of marked files and duplicatesSize the sum of
\* their sizes.
C29_ScanMarksDuplicates ==
    ScanReturned =>
        /\ \A i \in DOMAIN last.result.files : MarkedRight(last.result, i)
        /\ last.result.duplicatesCount = Cardinality(Marked(last.result))
        /\ last.result.duplicatesSize =
              SeqSum([i \in DOMAIN last.result.files |->
                         IF last.result.files[i].isDuplicate THEN last.result.files[i].size ELSE 0])

\* a scan of three files of one content, the first listed created last and
\* the two others at the same time, next to a file with a content of its own
C29_Witness ==
    /\ ScanReturned
    /\ \E i, j, k \in DOMAIN last.result.files :
          /\ i < j /\ j < k
          /\ {j, k} \subseteq SharedWith(last.result, i)
          /\ files[last.result.files[j].path].birth = files[last.result.files[k].path].birth
          /\ files[last.result.files[j].path].birth < files[last.result.files[i].path].birth
          /\ last.result.files[i].duplicateOf = last.result.files[j].path
          /\ last.result.files[k].duplicateOf = last.result.files[j].path
    /\ \E i \in DOMAIN last.result.files : SharedWith(last.result, i) = {i}

\* ------------------------------------------------------------ categories
\* the spellings of one extension, its lower-case spelling first
Spellings ==
    {<<".txt", ".TXT", ".Txt">>, <<".jpg", ".JPG", ".Jpg">>, <<".pdf", ".PDF">>, <<".zip", ".ZIP">>,
     <<".xyz", ".XYZ">>, <<"">>}

SpellingOf(e) == CHOOSE s \in Spellings : e \in Range(s)

\* the category the table gives the lower-case spelling of e, Others without one
TableCategory(e) ==
    IF SpellingOf(e)[1] \in DOMAIN EXTENSION_CATEGORIES THEN EXTENSION_CATEGORIES[SpellingOf(e)[1]] ELSE "Others"

Categorized == last.op = "categorizeFile"

\* C30: categorizeFile returns for every path one of the eight categories:
\* the table's category of the extension in lower case, the same for every
\* spelling of the extension, and Others for an unknown or a missing extension.
C30_CategorizeTotal ==
    /\ Cardinality(Range(getAllCategories)) = 8
    /\ Range(EXTENSION_CATEGORIES) \subseteq Range(getAllCategories)
    /\ Categorized =>
          /\ last.error = ""
          /\ last.result \in Range(getAllCategories)
          /\ last.result = TableCategory(last.arg.name.ext)
          /\ \A e \in Range(SpellingOf(last.arg.name.ext)) :
                categorizeFile([last.arg EXCEPT !.name.ext = e]) = last.result
          /\ SpellingOf(last.arg.name.ext)[1] \in {".xyz", ""} => last.result = "Others"

\* a path with a listed extension in mixed case has been categorized
C30_Witness ==
    /\ Categorized
    /\ last.arg.name.ext = ".Jpg"
    /\ last.result = "Images"

\* ---------------------------------------------------------------- C31
\* the paths of the initial trees that hold no file now
MissingPaths == {Slots[i].path : i \in DOMAIN Slots} \ DOMAIN files

\* destinations in a category folder, which may not exist yet
Destinations(from) == {MkPath(join(TargetDir, c), basename(from)) : c \in {"Documents", "Others"}}

SourceMissing == "Source file does not exist"

FileMissing == "File does not exist"

MoveOfMissing(r, from, to) ==
    /\ ~r.success /\ r.error = SourceMissing /\ r.from = from /\ r.to = to
    /\ r.files = files /\ r.dirs = dirs

DeleteOfMissing(r, p) ==
    /\ ~r.success /\ r.error = FileMissing /\ r.path = p /\ ~r.movedToTrash
    /\ r.files = files /\ r.dirs = dirs

MissingFails ==
    \A from \in MissingPaths, os \in OsOutcomes, flag \in BOOLEAN :
        /\ \A to \in Destinations(from) : MoveOfMissing(safeMove(files, dirs, from, to, flag, os, now), from, to)
        /\ DeleteOfMissing(safeDelete(files, dirs, from, flag, os, now), from)

\* the loop handles the action at its position, whose source is gone
HandlesMissing ==
    /\ run.op \in {"organize", "dedupe"} /\ run.pc = "exec"
    /\ run.i <= Len(run.st.actions)
    /\ ~fileExists(files, run.st.actions[run.i].from)
    /\ run'.op = run.op /\ run'.i = run.i + 1

RecordedMissing ==
    /\ files' = files /\ dirs' = dirs
    /\ run'.st.actions[run.i] =
          [run.st.actions[run.i] EXCEPT !.status = "failed",
                                        !.error = IF run.op = "organize" THEN SourceMissing ELSE FileMissing]
    /\ run'.st.failedCount = run.st.failedCount + 1
    /\ run'.st.okCount = run.st.okCount

\* C31: safeMove of a source that does not exist and safeDelete of a path that
\* does not exist return a failure and leave the files and the directories as
\* they are (no destination or trash directory is created); in the loops of
\* organize and dedupe the action is recorded as failed with the error text.
C31_MissingSourceFails == []MissingFails /\ [][HandlesMissing => RecordedMissing]_vars

\* a stored dedupe to the trash with a delete that failed on a missing file,
\* while another delete of the run was done
C31_Witness ==
    \E t \in DOMAIN ledger :
        /\ ledger[t].type = "dedupe"
        /\ hist[t].arg.moveToTrash
        /\ \E i \in DOMAIN ledger[t].actions :
              /\ ledger[t].actions[i].status = "failed"
              /\ ledger[t].actions[i].error = FileMissing
        /\ ledger[t].summary.deletedCount > 0

\* ---------------------------------------------------------------- C32
\* the actions the rollback r handles, in the order it handles them
Handled(r) == Reverse(CompletedOf(hist[r].arg))

\* the loop state of the rollback r after its first k actions
RollbackAfter(r, k) ==
    ExecRollback(SubSeq(Handled(r), 1, k), 1,
                 [files |-> hist[r].before, dirs |-> hist[r].dirsBefore, rollbackActions |-> <<>>,
                  details |-> <<>>, restoredCount |-> 0, failedCount |-> 0, skippedCount |-> 0],
                 hist[r].fault, ledger[r].completedAt)

\* the moves among the actions the rollback r handles
MovesOf(r) == {k \in DOMAIN Handled(r) : Handled(r)[k].type = "move"}

\* no file other than the one at p is touched
OnlyFrom(prev, next, p) == \A q \in DOMAIN prev \ {p} : q \in DOMAIN next /\ next[q] = prev[q]

CannotRestore(prev, a) == a.to \notin DOMAIN prev \/ a.from \in DOMAIN prev

MoveRolledBack(prev, next, a, detail, os) ==
    /\ OnlyFrom(prev.files, next.files, a.to)
    /\ IF CannotRestore(prev.files, a)
       THEN /\ detail.status = "skipped"
            /\ next.files = prev.files /\ next.dirs = prev.dirs
       ELSE /\ dirname(a.from) \in next.dirs
            /\ detail.status = (IF os \in {"ok", "xdev"} THEN "restored" ELSE "failed")
            /\ detail.status = "restored" =>
                  /\ ArrivedAt(prev.files, next.files, a.to, a.from)
                  /\ DOMAIN next.files = (DOMAIN prev.files \ {a.to}) \cup {a.from}

\* C32: the rollback of a completed move overwrites nothing: when the recorded
\* destination holds no file, or the original path holds one, the action is
\* reported skipped and files and directories stay as they are; otherwise the
\* original directory exists afterwards and, unless an operating-system call
\* fails, the file is at the original path and nowhere else, reported restored.
C32_RollbackMoveNeverOverwrites ==
    \A r \in RollbackRuns : \A k \in MovesOf(r) :
        MoveRolledBack(RollbackAfter(r, k - 1), RollbackAfter(r, k), Handled(r)[k],
                       hist[r].result.details[k], OsAt(hist[r].fault, k))

\* one rollback that skips a move whose original path another process has
\* taken while the moved file is still at its destination, and restores
\* another move
C32_Witness ==
    \E r \in RollbackRuns : \E k, n \in MovesOf(r) :
        /\ Handled(r)[k].from \in DOMAIN RollbackAfter(r, k - 1).files
        /\ Handled(r)[k].to \in DOMAIN RollbackAfter(r, k - 1).files
        /\ hist[r].result.details[k].status = "skipped"
        /\ hist[r].result.details[n].status = "restored"

\* ---------------------------------------------------------------- C33
\* the deletes among the actions the rollback r handles
DeletesOf(r) == {k \in DOMAIN Handled(r) : Handled(r)[k].type = "delete"}

\* the file that was in the trash at a.to is at the original path a.from
BackAtOrigin(prev, next, a) ==
    /\ a.to \in DOMAIN prev
    /\ a.from \in DOMAIN next
    /\ next[a.from].content = prev[a.to].content

\* C33: whenever a rollback reports a completed delete as restored, the file
\* from the trash is, after that step, at the original path of the action
\* with its content, whatever the tree holds when the rollback runs.
C33_RestoredDeleteAtOrigin ==
    \A r \in RollbackRuns : \A k \in DeletesOf(r) :
        hist[r].result.details[k].status = "restored" =>
            BackAtOrigin(RollbackAfter(r, k - 1).files, RollbackAfter(r, k).files, Handled(r)[k])

\* ---------------------------------------------------------------- C34
RollbackOutcomes == {"restored", "failed", "skipped"}

\* the number of details with the given outcome
Reported(details, status) == Cardinality({k \in DOMAIN details : details[k].status = status})

Accounted(report, stored, done) ==
    /\ InReverse(report.details, stored.actions, done)
    /\ \A k \in DOMAIN report.details : report.details[k].status \in RollbackOutcomes
    /\ report.summary.totalActions = Len(done)
    /\ report.summary.restoredCount = Reported(report.details, "restored")
    /\ report.summary.failedCount = Reported(report.details, "failed")
    /\ report.summary.skippedCount = Reported(report.details, "skipped")
    /\ report.summary.restoredCount + report.summary.failedCount + report.summary.skippedCount
          = report.summary.totalActions

\* C34: in every rollback that returns a report, each completed action of the
\* original transaction has one detail with one of the outcomes restored,
\* failed, skipped and one action of type restore in the rollback transaction;
\* the three counts are the numbers of details with each outcome and add up to
\* totalActions, the number of completed actions of the original transaction.
C34_RollbackAccounting ==
    \A r \in RollbackRuns : Accounted(hist[r].result, ledger[r], CompletedOf(hist[r].arg))

\* a rollback with a restored, a failed and a skipped action
C34_Witness ==
    \E r \in RollbackRuns :
        /\ hist[r].result.summary.restoredCount > 0
        /\ hist[r].result.summary.failedCount > 0
        /\ hist[r].result.summary.skippedCount > 0

\* ---------------------------------------------------------------- C35
\* C35: in every stored transaction of type rollback a restore action has
\* status completed exactly when its file was restored, so the number of
\* completed actions is summary.restoredCount.
C35_RestoreStatusIsOutcome ==
    \A r \in RollbackRuns :
        /\ \A k \in DOMAIN ledger[r].actions :
              ledger[r].actions[k].status = "completed" <=> hist[r].result.details[k].status = "restored"
        /\ CountStatus(ledger[r].actions, "completed") = ledger[r].summary.restoredCount

\* ---------------------------------------------------------------- C36
\* the files below the target directory when run t ended
LeftIn(t) ==
    {q \in DOMAIN hist[t].after :
        /\ Len(q.dir) >= Len(ledger[t].targetPath)
        /\ SubSeq(q.dir, 1, Len(ledger[t].targetPath)) = ledger[t].targetPath}

\* C36: dedupe never removes the last copy of a content: for every file the
\* run enumerated, a file with that content is in the target tree when the run
\* ends, for every strategy, with and without the trash, whichever deletes fail.
C36_LastCopyKept ==
    \A t \in DedupeRuns : \A p \in Enumerated(t) :
        \E q \in LeftIn(t) : hist[t].after[q].content = hist[t].before[p].content

\* a dedupe that deleted permanently two of three copies of one content
C36_Witness ==
    \E t \in DedupeRuns :
        /\ ~hist[t].arg.moveToTrash
        /\ \E i, j \in CompletedActions(t) :
              /\ i # j
              /\ ledger[t].actions[i].fileHash = ledger[t].actions[j].fileHash
              /\ ledger[t].actions[i].from \notin DOMAIN hist[t].after
              /\ ledger[t].actions[j].from \notin DOMAIN hist[t].after

\* ---------------------------------------------------------------- C37
\* the operations that can be undone: organize, dedupe to the trash, rollback
Reversible(t) == ledger[t].type = "dedupe" => hist[t].arg.moveToTrash

\* the number of files, anywhere in the tree or the trash, with the content
Copies(fs, content) == Cardinality({p \in DOMAIN fs : fs[p].content = content})

SameContents(prev, next) ==
    \A content \in {prev[p].content : p \in DOMAIN prev} \cup {next[p].content : p \in DOMAIN next} :
        Copies(prev, content) = Copies(next, content)

\* C37: organize, dedupe to the trash and rollback destroy no content: the
\* contents held by the files of the tree and the trash, counted with their
\* multiplicity, are the same after each of these operations as before it.
C37_ContentsPreserved ==
    \A t \in DOMAIN ledger : Reversible(t) => SameContents(hist[t].before, hist[t].after)

\* ---------------------------------------------------------------- C39
\* the loop handles the action at its position through safeMove (a move of
\* organize, a delete to the trash of dedupe), and safeMove fails
MoveFails ==
    /\ run.op = "organize" \/ (run.op = "dedupe" /\ run.arg.moveToTrash)
    /\ run.pc = "exec"
    /\ run.i <= Len(run.st.actions)
    /\ run'.op = run.op /\ run'.i = run.i + 1
    /\ run'.st.actions[run.i].status = "failed"

\* the source is where it was, and no path holds a new or another file
NoFileChanged ==
    /\ \A p \in DOMAIN files : p \in DOMAIN files' /\ files'[p] = files[p]
    /\ DOMAIN files' \subseteq DOMAIN files

\* C39: a failed move changes no file: when safeMove returns success = false
\* the source is still at its path with its content and no file was created
\* or replaced at the destination, also when the rename fails and the copy
\* and unlink are tried.
C39_FailedMoveChangesNothing == [][MoveFails => NoFileChanged]_vars

\* ---------------------------------------------------------------- C40
StoredStatuses == {"pending", "completed", "partially_completed", "rolled_back"}

\* every stored transaction stays stored, and a status changes only from
\* completed or partially_completed to rolled_back
StatusStep ==
    \A t \in DOMAIN ledger :
        /\ t \in DOMAIN ledger'
        /\ ledger'[t].status # ledger[t].status =>
              /\ ledger[t].status \in {"completed", "partially_completed"}
              /\ ledger'[t].status = "rolled_back"

StatusStored ==
    \A t \in DOMAIN ledger :
        /\ ledger[t].status \in StoredStatuses
        /\ ledger[t].status = "pending" => ledger[t].dryRun

\* C40: the only status change applied to a stored transaction is from
\* completed or partially_completed to rolled_back; a stored transaction with
\* status pending is a dry run and keeps that status; no transaction is
\* stored with status failed.
C40_StatusLifecycle == []StatusStored /\ [][StatusStep]_vars

\* a partially completed run and its rollback, both rolled back in turn
C40_Witness ==
    /\ Len(ledger) = 3
    /\ ledger[1].status = "rolled_back" /\ ledger[1].summary.failedCount > 0
    /\ ledger[2].status = "rolled_back" /\ ledger[2].type = "rollback"
    /\ ledger[3].status \in {"completed", "partially_completed"}

\* ---------------------------------------------------------------- C38
\* the stored rollback transactions of transaction t
RollbacksOf(t) == {r \in RollbackRuns : hist[r].arg = t}

\* both invocations have ended, on the same transaction
BothEnded(t) ==
    \A c \in Callers : Calls[c].pc \in {"done", "thrown"} /\ Calls[c].transactionId = t

\* C38: a transaction is rolled back at most once also when two rollback
\* invocations for it overlap: at most one of them passes the status check
\* and stores a rollback transaction, the other one fails with the
\* already-rolled-back error.
C38_RolledBackOnce ==
    \A t \in DOMAIN ledger :
        /\ Cardinality(RollbacksOf(t)) <= 1
        /\ BothEnded(t) =>
              \A c \in Callers : Calls[c].pc = "done" =>
                 \A d \in Callers \ {c} : Calls[d].pc = "thrown" /\ Calls[d].error = AlreadyRolledBack

====
